---- MODULE Spec2Model ----
(***************************************************************************)
(* A model of midi-mcp: the session repository (midi-repo.ts), the pure    *)
(* helpers (midi-utils.ts) and the tool handlers (midi-handlers.ts).       *)
(*                                                                         *)
(* Every handler is one action.  A handler that throws leaves the stores   *)
(* as they are and only records the failure in `last`, the answer the      *)
(* caller of the tool sees.                                                *)
(***************************************************************************)
EXTENDS Integers, Sequences, FiniteSets, TLC

VARIABLES
    midiStore,    \* MidiRepository.midiStore : id -> MidiEntry
    backupStore,  \* MidiRepository.backupStore : id -> BackupEntry
    files,        \* the file system below the project root : path -> bytes
    clock,        \* the last value Date.now() returned
    last,         \* the last tool call: its name, arguments, status and answer
    writes        \* the calls of commit that await fs.writeFile

vars == <<midiStore, backupStore, files, clock, last, writes>>

----------------------------------------------------------------------------
(* Arithmetic of the JavaScript runtime, on integers.                      *)

Min(a, b) == IF a < b THEN a ELSE b

Max(a, b) == IF a > b THEN a ELSE b

Abs(a) == IF a < 0 THEN 0 - a ELSE a

\* Math.round(p / q) for integers p, q with q # 0: floor(p/q + 1/2).
RoundDiv(p, q) ==
    IF q > 0 THEN (2 * p + q) \div (2 * q)
             ELSE ((0 - 2 * p) - q) \div (0 - 2 * q)

\* The value of note.ticks after arithmetic on 0/0 or Infinity * 0.
NaN == 0 - 1

IsNaN(x) == x = NaN

\* An optional field: {} is undefined, {v} is the value v.
Undefined == {}

Some(v) == {v}

IsDefined(o) == o # {}

TheValue(o) == CHOOSE v \in o : TRUE

\* The stable sort by ticks that Array.prototype.sort((a, b) => a.ticks -
\* b.ticks) performs: insertion of each element after its equals.
RECURSIVE InsertByTicks(_, _)
InsertByTicks(s, e) ==
    IF s = <<>> THEN <<e>>
    ELSE IF ~IsNaN(e.ticks) /\ ~IsNaN(Head(s).ticks)
                /\ e.ticks < Head(s).ticks
        THEN <<e>> \o s
    ELSE <<Head(s)>> \o InsertByTicks(Tail(s), e)

RECURSIVE SortByTicks(_)
SortByTicks(s) ==
    IF s = <<>> THEN <<>>
    ELSE InsertByTicks(SortByTicks(SubSeq(s, 1, Len(s) - 1)), s[Len(s)])

----------------------------------------------------------------------------
(* midi-utils.ts: bar/beat/tick conversion.                                *)

defaultTimeSignatures == << [ticks |-> 0, num |-> 4, denom |-> 4] >>

\* const ticksPerBeat = Math.round((ppq * 4) / denom)
TicksPerBeat(ppq, denom) == RoundDiv(ppq * 4, denom)

\* The time signatures the two walks use: a sorted copy, or the default.
WalkSigs(midi) ==
    IF Len(midi.timeSignatures) > 0
        THEN SortByTicks(midi.timeSignatures)
        ELSE defaultTimeSignatures

\* currentTicks + ticksPerBar <= nextTicks, nextTicks being Infinity in the
\* last segment.
BarFits(sigs, i, currentTicks, ticksPerBar) ==
    IF i + 1 <= Len(sigs)
        THEN currentTicks + ticksPerBar <= sigs[i + 1].ticks
        ELSE TRUE

BbtAt(currentTicks, ticksPerBeat, bbt) ==
    currentTicks + (bbt.beat - 1) * ticksPerBeat + bbt.tick

\* The for loop of bbtToTicks from segment i on, with its inner while loop.
RECURSIVE BbtWalk(_, _, _, _, _, _)
BbtWalk(ppq, sigs, i, currentTicks, bar, bbt) ==
    IF i > Len(sigs)
    THEN LET lastSig == sigs[Len(sigs)]
             ticksPerBeat == TicksPerBeat(ppq, lastSig.denom)
             ticksPerBar == ticksPerBeat * lastSig.num
             barsToAdvance == Max(0, bbt.bar - bar)
             baseTicks == currentTicks + barsToAdvance * ticksPerBar
         IN  BbtAt(baseTicks, ticksPerBeat, bbt)
    ELSE LET ticksPerBeat == TicksPerBeat(ppq, sigs[i].denom)
             ticksPerBar == ticksPerBeat * sigs[i].num
         IN  IF BarFits(sigs, i, currentTicks, ticksPerBar)
             THEN IF bar = bbt.bar
                  THEN BbtAt(currentTicks, ticksPerBeat, bbt)
                  ELSE BbtWalk(ppq, sigs, i, currentTicks + ticksPerBar,
                               bar + 1, bbt)
             ELSE IF bar = bbt.bar
                  THEN BbtAt(currentTicks, ticksPerBeat, bbt)
                  ELSE BbtWalk(ppq, sigs, i + 1, currentTicks, bar, bbt)

bbtToTicks(midi, bbt) == BbtWalk(midi.ppq, WalkSigs(midi), 1, 0, 1, bbt)

BbtOf(bar, offset, ticksPerBeat) ==
    [bar |-> bar,
     beat |-> (offset \div ticksPerBeat) + 1,
     tick |-> offset % ticksPerBeat]

\* The for loop of ticksToBbt from segment i on, with its inner while loop.
RECURSIVE TicksWalk(_, _, _, _, _, _)
TicksWalk(ppq, sigs, i, currentTicks, bar, ticks) ==
    IF i > Len(sigs)
    THEN [bar |-> bar, beat |-> 1, tick |-> 0]
    ELSE LET ticksPerBeat == TicksPerBeat(ppq, sigs[i].denom)
             ticksPerBar == ticksPerBeat * sigs[i].num
         IN  IF BarFits(sigs, i, currentTicks, ticksPerBar)
             THEN IF ticks < currentTicks + ticksPerBar
                  THEN BbtOf(bar, ticks - currentTicks, ticksPerBeat)
                  ELSE TicksWalk(ppq, sigs, i, currentTicks + ticksPerBar,
                                 bar + 1, ticks)
             ELSE IF i + 1 > Len(sigs) \/ ticks < sigs[i + 1].ticks
                  THEN BbtOf(bar, ticks - currentTicks, ticksPerBeat)
                  ELSE TicksWalk(ppq, sigs, i + 1, currentTicks, bar, ticks)

ticksToBbt(midi, ticks) == TicksWalk(midi.ppq, WalkSigs(midi), 1, 0, 1, ticks)

----------------------------------------------------------------------------
(* midi-repo.ts: the registries.                                           *)

\* A handler that throws after it has marked every session dirty.
FailDirty(op, args, message) ==
    /\ last' = [op |-> op, status |-> "error", args |-> args,
                result |-> message]
    /\ midiStore' = [m \in DOMAIN midiStore |->
                        [midiStore[m] EXCEPT !.dirty = TRUE]]
    /\ UNCHANGED <<backupStore, files, clock, writes>>

\* What a handler that threw leaves: the stores as they were, and the error
\* text withErrorHandling returns.
Fail(op, args, message) ==
    /\ last' = [op |-> op, status |-> "error", args |-> args,
                result |-> message]
    /\ UNCHANGED <<midiStore, backupStore, files, clock, writes>>

\* What a handler that only reads leaves.
Answer(op, args, result) ==
    /\ last' = [op |-> op, status |-> "ok", args |-> args, result |-> result]
    /\ UNCHANGED <<midiStore, backupStore, files, clock, writes>>

\* getEntry(midiId) finds an entry.
HasEntry(midiId) == midiId \in DOMAIN midiStore

\* getTrack(midi, trackId) finds a track: trackId is a 0-based index.
HasTrack(midi, trackId) == trackId >= 0 /\ trackId < Len(midi.tracks)

TrackOf(midi, trackId) == midi.tracks[trackId + 1]

\* header.update() of the MIDI library: both maps are put in tick order.
safeUpdateHeader(midi) ==
    [midi EXCEPT !.tempos = SortByTicks(@),
                 !.timeSignatures = SortByTicks(@)]

\* A markDirty that updates the header and leaves the flag as it is.
markDirtyHeaderOnly(entry) == [entry EXCEPT !.midi = safeUpdateHeader(@)]

\* markDirty(entry)
markDirty(entry) ==
    [entry EXCEPT !.dirty = TRUE, !.midi = safeUpdateHeader(@)]

----------------------------------------------------------------------------
(* midi-handlers.ts: toBbt and toTicks.                                    *)

\* The first item that is not undefined, alone.
ProvidedFirst(items) ==
    {i \in DOMAIN items :
        /\ IsDefined(items[i])
        /\ \A j \in DOMAIN items : IsDefined(items[j]) => i <= j}

\* requireOne(items): the items that are not undefined.
Provided(items) == {i \in DOMAIN items : IsDefined(items[i])}

\* header.secondsToTicks(seconds) of the MIDI library, for whole seconds and
\* a tempo map whose first entry is the one in force.
secondsToTicks(midi, seconds) ==
    IF Len(midi.tempos) = 0
        THEN RoundDiv(seconds * 120 * midi.ppq, 60)
        ELSE RoundDiv(seconds * midi.tempos[1].bpm * midi.ppq, 60)

\* toBbt({midiId, ticks})
ToBbt(midiId, ticks) ==
    LET args == [midiId |-> midiId, ticks |-> ticks]
    IN  IF ~HasEntry(midiId)
        THEN Fail("toBbt", args, "midiId not found")
        ELSE Answer("toBbt", args, ticksToBbt(midiStore[midiId].midi, ticks))

\* toTicks({midiId, bbt, quarterNotes, seconds})
ToTicks(midiId, bbt, quarterNotes, seconds) ==
    LET args == [midiId |-> midiId, bbt |-> bbt,
                 quarterNotes |-> quarterNotes, seconds |-> seconds]
        items == <<bbt, quarterNotes, seconds>>
    IN  IF ~HasEntry(midiId)
        THEN Fail("toTicks", args, "midiId not found")
        ELSE IF Cardinality(Provided(items)) # 1
        THEN Fail("toTicks", args, "Provide exactly one of")
        ELSE LET midi == midiStore[midiId].midi
             IN  IF IsDefined(bbt)
                 THEN Answer("toTicks", args, bbtToTicks(midi, TheValue(bbt)))
                 ELSE IF IsDefined(quarterNotes)
                 THEN Answer("toTicks", args, TheValue(quarterNotes) * midi.ppq)
                 ELSE Answer("toTicks", args,
                             secondsToTicks(midi, TheValue(seconds)))

----------------------------------------------------------------------------
(* midi-utils.ts: the range and filter predicate.                          *)

NoRange == Undefined

Range(startTicks, endTicks) ==
    Some([startTicks |-> startTicks, endTicks |-> endTicks])

\* inRange(ticks, range).  A comparison with NaN is false.
inRange(ticks, range) ==
    IF ~IsDefined(range) THEN TRUE
    ELSE LET r == TheValue(range)
         IN  IF /\ IsDefined(r.startTicks)
                /\ ~IsNaN(ticks)
                /\ ticks < TheValue(r.startTicks)
             THEN FALSE
             ELSE ~(/\ IsDefined(r.endTicks)
                    /\ ~IsNaN(ticks)
                    /\ ticks >= TheValue(r.endTicks))

NoFilter == Undefined

Filter(types, noteNumbers, ccNumbers, channels) ==
    Some([types |-> types, noteNumbers |-> noteNumbers,
          ccNumbers |-> ccNumbers, channels |-> channels])

\* A matchFilter that tests the note numbers and the types only.
matchFilterNoChannel(type, data, filter) ==
    IF ~IsDefined(filter) THEN TRUE
    ELSE LET f == TheValue(filter)
         IN  /\ IsDefined(f.types) => type \in TheValue(f.types)
             /\ (type = "note" /\ IsDefined(f.noteNumbers))
                  => TheValue(data.midi) \in TheValue(f.noteNumbers)

\* matchFilter(type, data, filter): data.midi, data.number and data.channel
\* are optional, as are the four fields of the filter.
matchFilter(type, data, filter) ==
    IF ~IsDefined(filter) THEN TRUE
    ELSE LET f == TheValue(filter)
         IN  IF IsDefined(f.types) /\ type \notin TheValue(f.types)
             THEN FALSE
             ELSE IF /\ type = "note"
                     /\ IsDefined(f.noteNumbers)
                     /\ IsDefined(data.midi)
                     /\ TheValue(data.midi) \notin TheValue(f.noteNumbers)
             THEN FALSE
             ELSE IF /\ type = "cc"
                     /\ IsDefined(f.ccNumbers)
                     /\ IsDefined(data.number)
                     /\ TheValue(data.number) \notin TheValue(f.ccNumbers)
             THEN FALSE
             ELSE IF /\ IsDefined(f.channels)
                     /\ IsDefined(data.channel)
                     /\ TheValue(data.channel) \notin TheValue(f.channels)
             THEN FALSE
             ELSE TRUE

\* note.channel ?? track.channel ?? 0: a note of the MIDI library carries no
\* channel of its own, and a track's channel is always a number.
getNoteChannel(note, track) == track.channel

\* The test every transform makes on a note before it touches it.
NoteMatches(note, track, range, filter) ==
    /\ inRange(note.ticks, range)
    /\ matchFilter("note",
                   [midi |-> Some(note.midi), number |-> Undefined,
                    channel |-> Some(getNoteChannel(note, track))],
                   filter)

\* cc.channel ?? track.channel ?? 0 and pb.channel ?? track.channel ?? 0:
\* as for a note.
getCcChannel(cc, track) == track.channel

getPitchBendChannel(pb, track) == track.channel

----------------------------------------------------------------------------
(* midi-handlers.ts: toEventList and getEvents.                            *)

\* The first loop of toEventList, from note i on.
RECURSIVE NoteEventsFrom(_, _, _, _)
NoteEventsFrom(track, range, filter, i) ==
    IF i > Len(track.notes) THEN <<>>
    ELSE LET note == track.notes[i]
         IN  (IF NoteMatches(note, track, range, filter)
                THEN << [type |-> "note", midi |-> note.midi,
                         ticks |-> note.ticks,
                         durationTicks |-> note.durationTicks,
                         velocity |-> note.velocity] >>
                ELSE <<>>)
                 \o NoteEventsFrom(track, range, filter, i + 1)

\* The inner loop of the second loop, over the list of controller num.
RECURSIVE CcListEventsFrom(_, _, _, _, _)
CcListEventsFrom(track, range, filter, num, i) ==
    IF i > Len(track.controlChanges[num]) THEN <<>>
    ELSE LET cc == track.controlChanges[num][i]
         IN  (IF /\ inRange(cc.ticks, range)
                 /\ matchFilter("cc",
                                [midi |-> Undefined, number |-> Some(num),
                                 channel |-> Some(getCcChannel(cc, track))],
                                filter)
                THEN << [type |-> "cc", number |-> num, value |-> cc.value,
                         ticks |-> cc.ticks] >>
                ELSE <<>>)
                 \o CcListEventsFrom(track, range, filter, num, i + 1)

\* The second loop: Object.entries(track.controlChanges) lists the
\* controller numbers in ascending order.
RECURSIVE CcEventsOf(_, _, _, _)
CcEventsOf(track, range, filter, numbers) ==
    IF numbers = {} THEN <<>>
    ELSE LET num == CHOOSE n \in numbers : \A m \in numbers : n <= m
         IN  CcListEventsFrom(track, range, filter, num, 1)
                 \o CcEventsOf(track, range, filter, numbers \ {num})

\* The third loop, from pitch bend i on.
RECURSIVE PitchBendEventsFrom(_, _, _, _)
PitchBendEventsFrom(track, range, filter, i) ==
    IF i > Len(track.pitchBends) THEN <<>>
    ELSE LET pb == track.pitchBends[i]
         IN  (IF /\ inRange(pb.ticks, range)
                 /\ matchFilter("pitchbend",
                                [midi |-> Undefined, number |-> Undefined,
                                 channel |->
                                     Some(getPitchBendChannel(pb, track))],
                                filter)
                THEN << [type |-> "pitchbend", value |-> pb.value,
                         ticks |-> pb.ticks] >>
                ELSE <<>>)
                 \o PitchBendEventsFrom(track, range, filter, i + 1)

\* toEventList(getTrack, midi, trackId, range, filter), the track found.
toEventList(track, range, filter) ==
    SortByTicks(NoteEventsFrom(track, range, filter, 1)
                \o CcEventsOf(track, range, filter,
                              DOMAIN track.controlChanges)
                \o PitchBendEventsFrom(track, range, filter, 1))

DefaultOffset == 0

DefaultLimit == 512

MinLimit == 1

MaxLimit == 5000

\* The input schema of get_events accepts offset and limit.
PagingAccepted(offset, limit) ==
    /\ IsDefined(offset) => TheValue(offset) >= 0
    /\ IsDefined(limit) =>
         (TheValue(limit) >= MinLimit /\ TheValue(limit) <= MaxLimit)

\* events.slice(start, end)
Slice(events, start, end) == SubSeq(events, start + 1, Min(end, Len(events)))

\* A nextOffset that is not null when the page ends on the last event.
NextOffsetOfLate(end, total) == IF end <= total THEN Some(end) ELSE Undefined

\* nextOffset: null is Undefined.
NextOffsetOf(end, total) == IF end < total THEN Some(end) ELSE Undefined

\* The answer of getEvents for the events found.
PageOf(events, offset, limit) ==
    LET start == IF IsDefined(offset) THEN TheValue(offset) ELSE DefaultOffset
        pageSize == IF IsDefined(limit) THEN TheValue(limit) ELSE DefaultLimit
        end == start + pageSize
    IN  [total |-> Len(events),
         nextOffset |-> NextOffsetOf(end, Len(events)),
         events |-> Slice(events, start, end)]

\* get_events: the schema, then getEvents({midiId, trackId, range, filter,
\* offset, limit})
GetEvents(midiId, trackId, range, filter, offset, limit) ==
    LET args == [midiId |-> midiId, trackId |-> trackId, range |-> range,
                 filter |-> filter, offset |-> offset, limit |-> limit]
    IN  IF ~PagingAccepted(offset, limit)
        THEN Fail("getEvents", args, "invalid arguments")
        ELSE IF ~HasEntry(midiId)
        THEN Fail("getEvents", args, "midiId not found")
        ELSE IF ~HasTrack(midiStore[midiId].midi, trackId)
        THEN Fail("getEvents", args, "trackId not found")
        ELSE LET track == TrackOf(midiStore[midiId].midi, trackId)
             IN  Answer("getEvents", args,
                        PageOf(toEventList(track, range, filter), offset,
                               limit))

----------------------------------------------------------------------------
(* The handlers that change a track.                                       *)

\* What a handler that changed the sequence of midiId leaves: the new
\* sequence, and markDirty(entry).
Mutate(op, args, midiId, midi) ==
    /\ midiStore' = [midiStore EXCEPT
                       ![midiId] = markDirty([@ EXCEPT !.midi = midi])]
    /\ last' = [op |-> op, status |-> "ok", args |-> args, result |-> "ok"]
    /\ UNCHANGED <<backupStore, files, clock, writes>>

WithNotes(midi, trackId, notes) ==
    [midi EXCEPT !.tracks[trackId + 1].notes = notes]

----------------------------------------------------------------------------
(* constrainToScale.                                                       *)

MinPitch == 0

MaxPitch == 127

keys == <<"C", "C#", "D", "D#", "E", "F", "F#", "G", "G#", "A", "A#", "B">>

\* key.toUpperCase() on the key names a caller passes.
toUpperCase(key) ==
    CASE key = "c" -> "C"
      [] key = "c#" -> "C#"
      [] key = "d" -> "D"
      [] key = "e" -> "E"
      [] key = "g#" -> "G#"
      [] key = "b" -> "B"
      [] key = "Db" -> "DB"
      [] OTHER -> key

\* keys.indexOf(k), 0-based, -1 when absent.
keyIndexOf(k) ==
    IF \E i \in 1 .. Len(keys) : keys[i] = k
        THEN (CHOOSE i \in 1 .. Len(keys) : keys[i] = k) - 1
        ELSE 0 - 1

scales ==
    [major |-> {0, 2, 4, 5, 7, 9, 11},
     minor |-> {0, 2, 3, 5, 7, 8, 10},
     dorian |-> {0, 2, 3, 5, 7, 9, 10},
     mixolydian |-> {0, 2, 4, 5, 7, 9, 10}]

\* buildScale(key, scale) does not throw.
ScaleKnown(key, scale) ==
    /\ keyIndexOf(toUpperCase(key)) >= 0
    /\ scale \in DOMAIN scales

\* buildScale(key, scale): the allowed pitch classes.
buildScale(key, scale) ==
    {(i + keyIndexOf(toUpperCase(key))) % 12 : i \in scales[scale]}

\* up() of constrainNote
ScaleUp(midi, allowed) ==
    IF \E i \in 1 .. 11 : ((midi + i) % 12) \in allowed
        THEN midi + (CHOOSE i \in 1 .. 11 :
                        /\ ((midi + i) % 12) \in allowed
                        /\ \A j \in 1 .. (i - 1) : ((midi + j) % 12) \notin allowed)
        ELSE midi

\* down() of constrainNote
ScaleDown(midi, allowed) ==
    IF \E i \in 1 .. 11 : ((midi - i + 1200) % 12) \in allowed
        THEN midi - (CHOOSE i \in 1 .. 11 :
                        /\ ((midi - i + 1200) % 12) \in allowed
                        /\ \A j \in 1 .. (i - 1) :
                             ((midi - j + 1200) % 12) \notin allowed)
        ELSE midi

\* constrainNote(midi, allowed, strategy)
constrainNote(midi, allowed, strategy) ==
    IF (midi % 12) \in allowed THEN midi
    ELSE IF strategy = "up" THEN ScaleUp(midi, allowed)
    ELSE IF strategy = "down" THEN ScaleDown(midi, allowed)
    ELSE LET upNote == ScaleUp(midi, allowed)
             downNote == ScaleDown(midi, allowed)
         IN  IF Abs(upNote - midi) < Abs(midi - downNote)
                 THEN upNote ELSE downNote

\* The loop of constrainToScale over track.notes.
ConstrainNotes(track, range, filter, allowed, strategy) ==
    [i \in 1 .. Len(track.notes) |->
        LET note == track.notes[i]
        IN  IF NoteMatches(note, track, range, filter)
            THEN [note EXCEPT !.midi =
                    Min(MaxPitch,
                        Max(MinPitch, constrainNote(@, allowed, strategy)))]
            ELSE note]

\* constrainToScale({midiId, trackId, range, filter, key, scale, strategy})
ConstrainToScale(midiId, trackId, range, filter, key, scale, strategy) ==
    LET args == [midiId |-> midiId, trackId |-> trackId, range |-> range,
                 filter |-> filter, key |-> key, scale |-> scale,
                 strategy |-> strategy]
    IN  IF ~HasEntry(midiId)
        THEN Fail("constrainToScale", args, "midiId not found")
        ELSE IF ~HasTrack(midiStore[midiId].midi, trackId)
        THEN Fail("constrainToScale", args, "trackId not found")
        ELSE IF ~ScaleKnown(key, scale)
        THEN Fail("constrainToScale", args, "Unknown key or scale")
        ELSE LET midi == midiStore[midiId].midi
                 track == TrackOf(midi, trackId)
                 notes == ConstrainNotes(track, range, filter,
                                         buildScale(key, scale), strategy)
             IN  Mutate("constrainToScale", args, midiId,
                        WithNotes(midi, trackId, notes))

----------------------------------------------------------------------------
(* fixOverlaps.                                                            *)

\* byPitch.get(key), as the positions in track.notes of the notes pushed to
\* it from position i on, each with its start tick.
RECURSIVE GroupFrom(_, _, _, _, _)
GroupFrom(track, range, filter, key, i) ==
    IF i > Len(track.notes) THEN <<>>
    ELSE LET note == track.notes[i]
             here == IF /\ NoteMatches(note, track, range, filter)
                        /\ <<note.midi, getNoteChannel(note, track)>> = key
                     THEN << [idx |-> i, ticks |-> note.ticks] >>
                     ELSE <<>>
         IN  here \o GroupFrom(track, range, filter, key, i + 1)

\* The keys of byPitch.
GroupKeys(track, range, filter) ==
    {<<track.notes[i].midi, getNoteChannel(track.notes[i], track)>> :
        i \in {j \in 1 .. Len(track.notes) :
                 NoteMatches(track.notes[j], track, range, filter)}}

\* current.durationTicks = Math.max(1, next.ticks - current.ticks)
TrimDurationLate(current, next) == Max(1, next.ticks - current.ticks + 1)

TrimDuration(current, next) == Max(1, next.ticks - current.ticks)

\* The inner loop in mode trim over one sorted list, from pair i on.
RECURSIVE TrimPass(_, _, _)
TrimPass(notes, list, i) ==
    IF i > Len(list) - 1 THEN notes
    ELSE LET current == notes[list[i].idx]
             next == notes[list[i + 1].idx]
             end == current.ticks + current.durationTicks
         IN  IF end > next.ticks
             THEN TrimPass([notes EXCEPT ![list[i].idx].durationTicks =
                                TrimDuration(current, next)],
                           list, i + 1)
             ELSE TrimPass(notes, list, i + 1)

\* A loop in mode remove that filters out the earlier note of a pair.
RECURSIVE RemovePassEarlier(_, _, _)
RemovePassEarlier(notes, list, i) ==
    IF i > Len(list) - 1 THEN {}
    ELSE LET current == notes[list[i].idx]
             next == notes[list[i + 1].idx]
             end == current.ticks + current.durationTicks
         IN  (IF end > next.ticks THEN {list[i].idx} ELSE {})
                 \cup RemovePassEarlier(notes, list, i + 1)

\* The inner loop in mode remove over one sorted list, from pair i on: the
\* positions of the notes filtered out of track.notes.  The list itself
\* keeps a removed note.
RECURSIVE RemovePass(_, _, _)
RemovePass(notes, list, i) ==
    IF i > Len(list) - 1 THEN {}
    ELSE LET current == notes[list[i].idx]
             next == notes[list[i + 1].idx]
             end == current.ticks + current.durationTicks
         IN  (IF end > next.ticks THEN {list[i + 1].idx} ELSE {})
                 \cup RemovePass(notes, list, i + 1)

\* The outer loop in mode trim, over the lists of the keys left.
RECURSIVE TrimGroups(_, _, _, _, _)
TrimGroups(track, range, filter, notes, keysLeft) ==
    IF keysLeft = {} THEN notes
    ELSE LET key == CHOOSE k \in keysLeft : TRUE
             list == SortByTicks(GroupFrom(track, range, filter, key, 1))
         IN  TrimGroups(track, range, filter, TrimPass(notes, list, 1),
                        keysLeft \ {key})

\* The outer loop in mode remove.
RemovedByGroups(track, range, filter) ==
    UNION {RemovePass(track.notes,
                      SortByTicks(GroupFrom(track, range, filter, key, 1)), 1) :
             key \in GroupKeys(track, range, filter)}

\* track.notes without the positions in gone, in order.
RECURSIVE Without(_, _, _)
Without(notes, gone, i) ==
    IF i > Len(notes) THEN <<>>
    ELSE (IF i \in gone THEN <<>> ELSE <<notes[i]>>)
             \o Without(notes, gone, i + 1)

FixedNotes(track, range, filter, mode) ==
    IF mode = "trim"
        THEN TrimGroups(track, range, filter, track.notes,
                        GroupKeys(track, range, filter))
        ELSE Without(track.notes, RemovedByGroups(track, range, filter), 1)

\* fixOverlaps({midiId, trackId, range, filter, mode})
FixOverlaps(midiId, trackId, range, filter, mode) ==
    LET args == [midiId |-> midiId, trackId |-> trackId, range |-> range,
                 filter |-> filter, mode |-> mode]
    IN  IF ~HasEntry(midiId)
        THEN Fail("fixOverlaps", args, "midiId not found")
        ELSE IF ~HasTrack(midiStore[midiId].midi, trackId)
        THEN Fail("fixOverlaps", args, "trackId not found")
        ELSE LET midi == midiStore[midiId].midi
                 track == TrackOf(midi, trackId)
             IN  Mutate("fixOverlaps", args, midiId,
                        WithNotes(midi, trackId,
                                  FixedNotes(track, range, filter, mode)))

----------------------------------------------------------------------------
(* quantize.                                                               *)

\* A grid is a number or a string; a string is its characters.
GridNumber(n) == [kind |-> "number", number |-> n, chars |-> <<>>]

GridString(chars) == [kind |-> "string", number |-> 0, chars |-> chars]

Digits == <<"0", "1", "2", "3", "4", "5", "6", "7", "8", "9">>

IsDigit(c) == \E d \in 1 .. Len(Digits) : Digits[d] = c

DigitValue(c) == (CHOOSE d \in 1 .. Len(Digits) : Digits[d] = c) - 1

\* Number(match[1]) of a string of digits.
RECURSIVE NumberOf(_)
NumberOf(chars) ==
    IF chars = <<>> THEN 0
    ELSE 10 * NumberOf(SubSeq(chars, 1, Len(chars) - 1))
            + DigitValue(chars[Len(chars)])

\* grid.match(/^1\/(\d+)$/)
GridMatches(chars) ==
    /\ Len(chars) >= 3
    /\ chars[1] = "1"
    /\ chars[2] = "/"
    /\ \A i \in 3 .. Len(chars) : IsDigit(chars[i])

GridDenom(chars) == NumberOf(SubSeq(chars, 3, Len(chars)))

\* gridToTicks(grid, ppq) does not throw.
GridAccepted(grid) ==
    \/ grid.kind = "number"
    \/ /\ grid.kind = "string"
       /\ GridMatches(grid.chars)
       /\ GridDenom(grid.chars) > 0

\* gridToTicks(grid, ppq)
gridToTicks(grid, ppq) ==
    IF grid.kind = "number" THEN grid.number
    ELSE RoundDiv(ppq * 4, GridDenom(grid.chars))

\* strength and swing are numbers in [0, 1]; the model takes them in steps
\* of 1 / UnitSteps.
UnitSteps == 2

\* The new note.ticks of a matching note; str and sw count UnitSteps-ths.
\* With gridTicks = 0 the division gives NaN or Infinity, the target is NaN
\* and so is every value computed from it; Math.max(0, NaN) is NaN.
QuantizedTicks(ticks, gridTicks, str, sw) ==
    IF gridTicks = 0 \/ IsNaN(ticks) THEN NaN
    ELSE LET gridIndex == RoundDiv(ticks, gridTicks)
             swung == sw # 0 /\ gridIndex >= 0 /\ gridIndex % 2 = 1
             target == gridIndex * gridTicks
                         + (IF swung
                              THEN RoundDiv(gridTicks * sw, 2 * UnitSteps)
                              ELSE 0)
         IN  Max(0, RoundDiv(UnitSteps * ticks + (target - ticks) * str,
                             UnitSteps))

\* The loop of quantize over track.notes.
QuantizeNotes(track, range, filter, gridTicks, str, sw) ==
    [i \in 1 .. Len(track.notes) |->
        LET note == track.notes[i]
        IN  IF NoteMatches(note, track, range, filter)
            THEN [note EXCEPT !.ticks = QuantizedTicks(@, gridTicks, str, sw)]
            ELSE note]

\* strength ?? 1 and swing ?? 0, in UnitSteps-ths
StrengthOf(strength) ==
    IF IsDefined(strength) THEN TheValue(strength) ELSE UnitSteps

SwingOf(swing) == IF IsDefined(swing) THEN TheValue(swing) ELSE 0

\* quantize({midiId, trackId, range, filter, grid, strength, swing})
Quantize(midiId, trackId, range, filter, grid, strength, swing) ==
    LET args == [midiId |-> midiId, trackId |-> trackId, range |-> range,
                 filter |-> filter, grid |-> grid, strength |-> strength,
                 swing |-> swing]
    IN  IF ~HasEntry(midiId)
        THEN Fail("quantize", args, "midiId not found")
        ELSE IF ~HasTrack(midiStore[midiId].midi, trackId)
        THEN Fail("quantize", args, "trackId not found")
        ELSE IF ~GridAccepted(grid)
        THEN Fail("quantize", args, "Unsupported grid")
        ELSE LET midi == midiStore[midiId].midi
                 track == TrackOf(midi, trackId)
                 gridTicks == gridToTicks(grid, midi.ppq)
                 notes == QuantizeNotes(track, range, filter, gridTicks,
                                        StrengthOf(strength), SwingOf(swing))
             IN  Mutate("quantize", args, midiId,
                        WithNotes(midi, trackId, notes))

----------------------------------------------------------------------------
(* The conversion specification: one open session whose header is drawn    *)
(* from the maps below, and the two conversion tools.                      *)

\* The largest tick and the largest count of quarter notes or seconds asked.
MaxBbtTick == 20

MaxQuantity == 2

TheMidiId == <<"midi", 0, 1>>

RootPath == <<"proj">>

NoTrackMidi(ppq, sigs) ==
    [ppq |-> ppq,
     tempos |-> << [ticks |-> 0, bpm |-> 120] >>,
     timeSignatures |-> sigs,
     tracks |-> <<>>]

CleanEntry(midi) ==
    [id |-> TheMidiId, projectId |-> "default",
     path |-> Some(RootPath \o <<"a.mid">>), midi |-> midi,
     dirty |-> FALSE, lastBackupId |-> Undefined]

Signatures ==
    {[num |-> 4, denom |-> 4], [num |-> 3, denom |-> 4],
     [num |-> 3, denom |-> 8]}

SigAt(t, sig) == [ticks |-> t, num |-> sig.num, denom |-> sig.denom]

\* One entry at tick 0, or a second entry after it: on a bar line of the
\* first signature or inside a bar.
BbtSigMaps ==
    {<<SigAt(0, a)>> : a \in Signatures}
    \cup {<<SigAt(0, a), SigAt(t, b)>> :
            a \in Signatures, b \in Signatures, t \in {6, 8, 10}}

BbtPpqs == {2}

BbtMidis == {NoTrackMidi(ppq, sigs) : ppq \in BbtPpqs, sigs \in BbtSigMaps}

InitBbt ==
    /\ \E midi \in BbtMidis : midiStore = (TheMidiId :> CleanEntry(midi))
    /\ backupStore = << >>
    /\ files = << >>
    /\ clock = 0
    /\ last = [op |-> "init", status |-> "ok", args |-> << >>,
               result |-> << >>]
    /\ writes = {}

\* The caller asks for the ticks of the position toBbt just answered.
ToTicksOfAnswer ==
    /\ last.op = "toBbt"
    /\ last.status = "ok"
    /\ ToTicks(TheMidiId, Some(last.result), Undefined, Undefined)

\* The caller passes the position toBbt just answered along with a quantity
\* in another unit, or in both other units.
ToTicksOfSeveral ==
    /\ last.op = "toBbt"
    /\ last.status = "ok"
    /\ \E q \in 0 .. MaxQuantity :
         \/ ToTicks(TheMidiId, Some(last.result), Some(q), Undefined)
         \/ ToTicks(TheMidiId, Some(last.result), Undefined, Some(q))
         \/ ToTicks(TheMidiId, Some(last.result), Some(q), Some(q))

NextBbt ==
    \/ \E t \in 0 .. MaxBbtTick : ToBbt(TheMidiId, t)
    \/ ToTicksOfAnswer
    \/ ToTicksOfSeveral
    \/ \E q \in 0 .. MaxQuantity :
         \/ ToTicks(TheMidiId, Undefined, Some(q), Undefined)
         \/ ToTicks(TheMidiId, Undefined, Undefined, Some(q))
         \/ ToTicks(TheMidiId, Undefined, Some(q), Some(q))
    \/ ToTicks(TheMidiId, Undefined, Undefined, Undefined)
    \/ ToBbt(<<"midi", 0, 2>>, 0)

SpecBbt == InitBbt /\ [][NextBbt]_vars

\* C1: for every tick t >= 0, under any time-signature map, the position
\* toBbt answers for t converts back to t: bbtToTicks(ticksToBbt(t)) = t.
C1_RoundTrip ==
    (last.op = "toTicks" /\ last.status = "ok" /\ IsDefined(last.args.bbt))
        => \A t \in 0 .. MaxBbtTick :
             ticksToBbt(midiStore[TheMidiId].midi, t) = TheValue(last.args.bbt)
                => last.result = t

----------------------------------------------------------------------------
(* The scale specification: one open session with a one-track sequence of  *)
(* two notes, the first of any pitch, and constrainToScale applied to it   *)
(* once and then once more with the same arguments.                        *)

Note(midi, ticks, durationTicks) ==
    [midi |-> midi, ticks |-> ticks, durationTicks |-> durationTicks,
     velocity |-> 80]

TrackWith(notes) ==
    [name |-> "", channel |-> 0, instrument |-> 0, notes |-> notes,
     controlChanges |-> << >>,
     pitchBends |-> <<>>]

OneTrackMidi(ppq, notes) ==
    [ppq |-> ppq,
     tempos |-> << [ticks |-> 0, bpm |-> 120] >>,
     timeSignatures |-> << [ticks |-> 0, num |-> 4, denom |-> 4] >>,
     tracks |-> << TrackWith(notes) >>]

InitWith(midis) ==
    /\ \E midi \in midis : midiStore = (TheMidiId :> CleanEntry(midi))
    /\ backupStore = << >>
    /\ files = << >>
    /\ clock = 0
    /\ last = [op |-> "init", status |-> "ok", args |-> << >>,
               result |-> << >>]
    /\ writes = {}

TheNotes == midiStore[TheMidiId].midi.tracks[1].notes

TheTrack == midiStore[TheMidiId].midi.tracks[1]

ScaleMidis ==
    {OneTrackMidi(4, <<Note(p, 0, 2), Note(61, 4, 2)>>) :
        p \in MinPitch .. MaxPitch}

ScaleKeys == {keys[i] : i \in 1 .. Len(keys)} \cup {"c#", "H"}

ScaleNames == DOMAIN scales \cup {"lydian"}

Strategies == {"nearest", "up", "down"}

ScaleRanges == {NoRange, Range(Some(0), Some(4))}

ScaleFilters ==
    {NoFilter, Filter(Some({"note"}), Undefined, Undefined, Some({0}))}

InitScale == InitWith(ScaleMidis)

ConstrainFirst ==
    /\ last.op = "init"
    /\ \E key \in ScaleKeys, scale \in ScaleNames, strategy \in Strategies,
          range \in ScaleRanges, filter \in ScaleFilters, trackId \in {0, 1} :
         ConstrainToScale(TheMidiId, trackId, range, filter, key, scale,
                          strategy)

\* The caller applies constrainToScale again, with the same arguments.
ConstrainAgain ==
    /\ last.op = "constrainToScale"
    /\ last.status = "ok"
    /\ ConstrainToScale(TheMidiId, last.args.trackId, last.args.range,
                        last.args.filter, last.args.key, last.args.scale,
                        last.args.strategy)

NextScale == ConstrainFirst \/ ConstrainAgain

SpecScale == InitScale /\ [][NextScale]_vars

\* C2: after constrainToScale every note the call covers has its pitch
\* class in the allowed set, so that a second application with the same
\* arguments changes no pitch.
C2_ScaleClosure ==
    (last.op = "constrainToScale" /\ last.status = "ok")
        => LET allowed == buildScale(last.args.key, last.args.scale)
           IN  /\ \A i \in 1 .. Len(TheNotes) :
                     NoteMatches(TheNotes[i], TheTrack, last.args.range,
                                 last.args.filter)
                        => (TheNotes[i].midi % 12) \in allowed
               /\ ConstrainNotes(TheTrack, last.args.range, last.args.filter,
                                 allowed, last.args.strategy) = TheNotes

----------------------------------------------------------------------------
(* The overlap specification: one open session with a one-track sequence   *)
(* of up to MaxNotes notes in any order, and fixOverlaps applied to it.    *)

MaxNotes == 3

OverlapPitches == {60, 61}

\* <<start tick, duration>>: two notes that start together, one that ends
\* where the last one starts and ones that end after the next start.
OverlapShapes == {<<0, 2>>, <<0, 3>>, <<1, 2>>, <<2, 2>>}

OverlapNotes ==
    {Note(p, sh[1], sh[2]) : p \in OverlapPitches, sh \in OverlapShapes}

SeqsUpTo(S, n) == UNION {[1 .. k -> S] : k \in 0 .. n}

OverlapMidis == {OneTrackMidi(4, notes) : notes \in SeqsUpTo(OverlapNotes, MaxNotes)}

OverlapRanges == {NoRange, Range(Some(1), Undefined)}

OverlapFilters ==
    {NoFilter, Filter(Undefined, Some({60}), Undefined, Undefined)}

InitOverlap == InitWith(OverlapMidis)

NextOverlap ==
    \/ \E range \in OverlapRanges, filter \in OverlapFilters,
          mode \in {"trim", "remove"} :
         FixOverlaps(TheMidiId, 0, range, filter, mode)
    \/ FixOverlaps(TheMidiId, 1, NoRange, NoFilter, "trim")

SpecOverlap == InitOverlap /\ [][NextOverlap]_vars

\* Note j follows note i in its (pitch, channel) list: both match, they have
\* the same pitch, j comes after i in the order of the stable sort by start
\* tick, and no note of the list lies between them.
Before(notes, i, j) ==
    \/ notes[i].ticks < notes[j].ticks
    \/ notes[i].ticks = notes[j].ticks /\ i < j

InList(track, range, filter, i, key) ==
    /\ NoteMatches(track.notes[i], track, range, filter)
    /\ <<track.notes[i].midi, getNoteChannel(track.notes[i], track)>> = key

NextInList(track, range, filter, i, j) ==
    LET notes == track.notes
        key == <<notes[i].midi, getNoteChannel(notes[i], track)>>
    IN  /\ i # j
        /\ InList(track, range, filter, i, key)
        /\ InList(track, range, filter, j, key)
        /\ Before(notes, i, j)
        /\ \A k \in 1 .. Len(notes) :
             (k # i /\ k # j /\ InList(track, range, filter, k, key))
                => ~(Before(notes, i, k) /\ Before(notes, k, j))

AfterTrim ==
    /\ last.op = "fixOverlaps"
    /\ last.status = "ok"
    /\ last.args.mode = "trim"

\* C3 as claimed: after fixOverlaps(mode=trim) every note of a list ends at
\* or before the start of the next note of the list, also when the two
\* start at the same tick.
C3_NoOverlapAfterTrim ==
    AfterTrim =>
        \A i, j \in 1 .. Len(TheNotes) :
            NextInList(TheTrack, last.args.range, last.args.filter, i, j)
                => TheNotes[i].ticks + TheNotes[i].durationTicks
                      <= TheNotes[j].ticks

\* C3 as amended: after fixOverlaps(mode=trim) every note of a list ends at
\* or before the start of the next note of the list, unless the two start
\* at the same tick, and then the earlier one lasts exactly one tick.
C3_TrimmedToNextStart ==
    AfterTrim =>
        \A i, j \in 1 .. Len(TheNotes) :
            NextInList(TheTrack, last.args.range, last.args.filter, i, j)
                => IF TheNotes[i].ticks = TheNotes[j].ticks
                       THEN TheNotes[i].durationTicks = 1
                       ELSE TheNotes[i].ticks + TheNotes[i].durationTicks
                               <= TheNotes[j].ticks

\* A trim has shortened a note to the start of the next one of its list, and
\* another to one tick because the next one starts with it.
C3_Witness ==
    /\ AfterTrim
    /\ \E i, j \in 1 .. Len(TheNotes) :
         /\ NextInList(TheTrack, last.args.range, last.args.filter, i, j)
         /\ TheNotes[i].ticks = TheNotes[j].ticks
         /\ TheNotes[i].durationTicks = 1
    /\ \E i, j \in 1 .. Len(TheNotes) :
         /\ NextInList(TheTrack, last.args.range, last.args.filter, i, j)
         /\ TheNotes[i].ticks < TheNotes[j].ticks
         /\ TheNotes[i].durationTicks = 1
         /\ TheNotes[i].ticks + 1 = TheNotes[j].ticks

----------------------------------------------------------------------------
(* The quantize specification: one open session with a one-track sequence  *)
(* of up to MaxNotes notes, and quantize applied to it, then applied again *)
(* with the same arguments.                                                *)

MaxQuantizeTick == 5

QuantizeMidis ==
    {OneTrackMidi(4, notes) :
        notes \in SeqsUpTo({Note(60, t, 2) : t \in 0 .. MaxQuantizeTick},
                           MaxNotes)}

\* At 4 ticks per quarter note "1/8" is 2 ticks and "1/64" rounds to 0.
Grids ==
    {GridNumber(0), GridNumber(3), GridNumber(4), GridNumber(0 - 4),
     GridString(<<"1", "/", "8">>), GridString(<<"1", "/", "6", "4">>),
     GridString(<<"1", "/", "0">>), GridString(<<"1", "/", "x">>),
     GridString(<<"2", "/", "4">>)}

Fractions == {Undefined} \cup {Some(k) : k \in 0 .. UnitSteps}

QuantizeRanges == {NoRange, Range(Some(2), Some(5))}

InitQuantize == InitWith(QuantizeMidis)

QuantizeFirst ==
    /\ last.op = "init"
    /\ \E grid \in Grids, strength \in Fractions, swing \in Fractions,
          range \in QuantizeRanges, trackId \in {0, 1} :
         Quantize(TheMidiId, trackId, range, NoFilter, grid, strength, swing)

\* The caller applies quantize again, with the same arguments.
QuantizeAgain ==
    /\ last.op = "quantize"
    /\ last.status = "ok"
    /\ Quantize(TheMidiId, last.args.trackId, last.args.range,
                last.args.filter, last.args.grid, last.args.strength,
                last.args.swing)

NextQuantize == QuantizeFirst \/ QuantizeAgain

SpecQuantize == InitQuantize /\ [][NextQuantize]_vars

IsMultipleOf(ticks, gridTicks) ==
    /\ ~IsNaN(ticks)
    /\ \E k \in 0 .. ticks : ticks = k * Abs(gridTicks)

\* C4: a quantize at strength 1 and swing 0, with any accepted grid, puts
\* every note it covers on a multiple of gridTicks, and the same call made
\* again moves no note.
C4_QuantizeIdempotent ==
    [][(/\ last'.op = "quantize"
        /\ last'.status = "ok"
        /\ StrengthOf(last'.args.strength) = UnitSteps
        /\ SwingOf(last'.args.swing) = 0)
          => LET a == last'.args
                 gridTicks == gridToTicks(a.grid, midiStore[TheMidiId].midi.ppq)
             IN  /\ \A i \in 1 .. Len(TheNotes) :
                       NoteMatches(TheNotes[i], TheTrack, a.range, a.filter)
                          => IsMultipleOf(TheNotes'[i].ticks, gridTicks)
                 /\ QuantizeNotes(TheTrack', a.range, a.filter, gridTicks,
                                  UnitSteps, 0) = TheNotes']_vars

\* C5: a quantize at strength 0, with any accepted grid, any swing, range
\* and filter, leaves the start tick of every note as it was.
C5_StrengthZeroNoOp ==
    [][(/\ last'.op = "quantize"
        /\ last'.status = "ok"
        /\ last'.args.strength = Some(0))
          => /\ Len(TheNotes') = Len(TheNotes)
             /\ \A i \in 1 .. Len(TheNotes) :
                  TheNotes'[i].ticks = TheNotes[i].ticks]_vars

----------------------------------------------------------------------------
(* The query specification: one open session with a one-track sequence of  *)
(* notes, control changes and pitch bends, and getEvents on it, page after *)
(* page.                                                                   *)

MaxQueryTick == 3

QueryNotes ==
    {Note(60, 0, 1), Note(60, 1, 1), Note(61, 1, 1), Note(60, MaxQueryTick, 1)}

QueryControlChanges ==
    {<< >>,
     (7 :> << [value |-> 50, ticks |-> 1], [value |-> 60, ticks |-> 2] >>),
     (7 :> << [value |-> 50, ticks |-> 2] >>)
        @@ (1 :> << [value |-> 10, ticks |-> 0] >>)}

QueryPitchBends == {<<>>, << [value |-> 0, ticks |-> 2] >>}

QueryMidis ==
    {[OneTrackMidi(4, notes) EXCEPT
        !.tracks[1].controlChanges = cc, !.tracks[1].pitchBends = pb] :
        notes \in SeqsUpTo(QueryNotes, MaxNotes),
        cc \in QueryControlChanges, pb \in QueryPitchBends}

QueryRanges ==
    {NoRange, Range(Undefined, Undefined), Range(Undefined, Some(2)),
     Range(Some(2), Undefined), Range(Some(1), Some(MaxQueryTick)),
     Range(Some(0), Some(MaxQueryTick + 1))}

QueryFilters ==
    {NoFilter,
     Filter(Some({"note", "cc"}), Some({60}), Some({7}), Undefined),
     Filter(Undefined, Undefined, Undefined, Some({1}))}

\* <<offset, limit>>
QueryPagings ==
    {<<Undefined, Undefined>>, <<Undefined, Some(1)>>, <<Some(0), Some(2)>>,
     <<Some(1), Some(2)>>, <<Some(3), Undefined>>,
     <<Undefined, Some(MaxLimit + 1)>>, <<Undefined, Some(MinLimit - 1)>>}

InitQuery == InitWith(QueryMidis)

FirstPage ==
    /\ last.op = "init"
    /\ \E range \in QueryRanges, filter \in QueryFilters,
          paging \in QueryPagings :
         GetEvents(TheMidiId, 0, range, filter, paging[1], paging[2])

\* The caller asks for the page at the nextOffset it was answered.
FollowingPage ==
    /\ last.op = "getEvents"
    /\ last.status = "ok"
    /\ IsDefined(last.result.nextOffset)
    /\ GetEvents(TheMidiId, last.args.trackId, last.args.range,
                 last.args.filter, last.result.nextOffset, last.args.limit)

NextQuery ==
    \/ FirstPage
    \/ FollowingPage
    \/ /\ last.op = "init"
       /\ GetEvents(TheMidiId, 1, NoRange, NoFilter, Undefined, Undefined)

SpecQuery == InitQuery /\ [][NextQuery]_vars

----------------------------------------------------------------------------
(* The window specification: one open session with a one-track sequence of *)
(* notes, a quantize of the whole track, and getEvents over a window of    *)
(* it, all events on one page.                                             *)

WindowMidis ==
    {OneTrackMidi(4, notes) :
        notes \in SeqsUpTo({Note(60, t, 1) : t \in 0 .. MaxQueryTick}, 2)}

InitWindow == InitWith(WindowMidis)

QuantizeTrack ==
    /\ last.op = "init"
    /\ \E grid \in Grids, strength \in {Undefined, Some(0)} :
         Quantize(TheMidiId, 0, NoRange, NoFilter, grid, strength, Undefined)

WindowQuery ==
    /\ last.op \in {"init", "quantize"}
    /\ \E range \in QueryRanges :
         GetEvents(TheMidiId, 0, range, NoFilter, Undefined, Undefined)

NextWindow == QuantizeTrack \/ WindowQuery

SpecWindow == InitWindow /\ [][NextWindow]_vars

AfterQuery == last.op = "getEvents" /\ last.status = "ok"

Unpaged ==
    /\ ~IsDefined(last.args.offset)
    /\ ~IsDefined(last.args.limit)
    /\ ~IsDefined(last.result.nextOffset)

\* The bounds of the range asked: absent when the range is.
StartOf(range) ==
    IF IsDefined(range) THEN TheValue(range).startTicks ELSE Undefined

EndOf(range) ==
    IF IsDefined(range) THEN TheValue(range).endTicks ELSE Undefined

\* The ticks T that split the window of the range: on or after its start
\* and on or before its end, where the window has one.
SplitPoints(range) ==
    {T \in 0 .. MaxQueryTick + 1 :
        /\ IsDefined(StartOf(range)) => TheValue(StartOf(range)) <= T
        /\ IsDefined(EndOf(range)) => T <= TheValue(EndOf(range))}

\* C6: the events of the window [a, b) are the events of [a, T) followed by
\* the events of [T, b), for every split point T and with absent bounds
\* too; every event of [a, T) is before T and every event of [T, b) is at
\* or after T, so no event is in both.
C6_RangePartition ==
    (AfterQuery /\ Unpaged) =>
        \A T \in SplitPoints(last.args.range) :
            LET a == StartOf(last.args.range)
                b == EndOf(last.args.range)
                lower == toEventList(TheTrack, Range(a, Some(T)),
                                     last.args.filter)
                upper == toEventList(TheTrack, Range(Some(T), b),
                                     last.args.filter)
            IN  /\ lower \o upper = last.result.events
                /\ \A i \in 1 .. Len(lower) : lower[i].ticks < T
                /\ \A i \in 1 .. Len(upper) : upper[i].ticks >= T

\* The pages a caller collects from the page `page` on, following nextOffset
\* until it is null.
RECURSIVE PagesFrom(_, _, _)
PagesFrom(events, page, limit) ==
    IF IsDefined(page.nextOffset)
        THEN page.events
                \o PagesFrom(events, PageOf(events, page.nextOffset, limit),
                             limit)
        ELSE page.events

\* C7: total counts the matching events, events is the slice [offset,
\* offset + limit) of them in tick order, nextOffset is offset + limit when
\* that is below total and null otherwise, and the pages from offset 0 on
\* are together every matching event once, in order.
C7_Pagination ==
    AfterQuery =>
        LET all == toEventList(TheTrack, last.args.range, last.args.filter)
            offset == IF IsDefined(last.args.offset)
                        THEN TheValue(last.args.offset) ELSE 0
            limit == IF IsDefined(last.args.limit)
                        THEN TheValue(last.args.limit) ELSE 512
            answer == last.result
        IN  /\ limit <= 5000
            /\ answer.total = Len(all)
            /\ Len(answer.events) = Max(0, Min(limit, Len(all) - offset))
            /\ \A i \in 1 .. Len(answer.events) :
                 answer.events[i] = all[offset + i]
            /\ \A i \in 1 .. Len(all) - 1 : all[i].ticks <= all[i + 1].ticks
            /\ answer.nextOffset =
                 (IF offset + limit < Len(all)
                    THEN Some(offset + limit) ELSE Undefined)
            /\ offset = 0 => PagesFrom(all, answer, last.args.limit) = all

\* A caller that started at offset 0 has reached the last of several pages.
C7_Witness ==
    /\ AfterQuery
    /\ IsDefined(last.args.offset)
    /\ TheValue(last.args.offset) >= 2
    /\ TheValue(last.args.offset) < last.result.total
    /\ last.result.events # <<>>
    /\ ~IsDefined(last.result.nextOffset)

----------------------------------------------------------------------------
(* transpose.                                                              *)

\* The loop of transpose over track.notes.
TransposeNotes(track, range, filter, semitones) ==
    [i \in 1 .. Len(track.notes) |->
        LET note == track.notes[i]
        IN  IF NoteMatches(note, track, range, filter)
            THEN [note EXCEPT !.midi =
                    Min(MaxPitch, Max(MinPitch, @ + semitones))]
            ELSE note]

\* transpose({midiId, trackId, range, filter, semitones})
Transpose(midiId, trackId, range, filter, semitones) ==
    LET args == [midiId |-> midiId, trackId |-> trackId, range |-> range,
                 filter |-> filter, semitones |-> semitones]
    IN  IF ~HasEntry(midiId)
        THEN Fail("transpose", args, "midiId not found")
        ELSE IF ~HasTrack(midiStore[midiId].midi, trackId)
        THEN Fail("transpose", args, "trackId not found")
        ELSE LET midi == midiStore[midiId].midi
                 track == TrackOf(midi, trackId)
                 notes == TransposeNotes(track, range, filter, semitones)
             IN  Mutate("transpose", args, midiId,
                        WithNotes(midi, trackId, notes))

----------------------------------------------------------------------------
(* midi-repo.ts: project paths. A path is the sequence of its segments; a  *)
(* relative path a caller passes is its segments and whether it starts at  *)
(* the root of the file system.                                            *)

RelPath(absolute, segs) == [absolute |-> absolute, segs |-> segs]

\* The empty string, which requirePath rejects.
BlankPath == RelPath(FALSE, <<>>)

\* this.projects: "default" is process.cwd().
projects == ("default" :> RootPath)

\* The segment names that start with "..".
DotDotNames == {"..", "..c.mid"}

\* Segment by segment, as path.resolve normalises: ".." drops the last
\* segment, and the root of the file system is its own parent.
RECURSIVE Normalized(_, _)
Normalized(acc, segs) ==
    IF segs = <<>> THEN acc
    ELSE IF Head(segs) = ".."
        THEN Normalized(IF acc = <<>> THEN <<>>
                        ELSE SubSeq(acc, 1, Len(acc) - 1), Tail(segs))
        ELSE Normalized(Append(acc, Head(segs)), Tail(segs))

\* path.resolve(absBase, relativePath)
PathResolve(absBase, relativePath) ==
    IF relativePath.absolute THEN Normalized(<<>>, relativePath.segs)
    ELSE Normalized(absBase, relativePath.segs)

\* The count of leading segments two paths share.
RECURSIVE CommonPrefix(_, _)
CommonPrefix(a, b) ==
    IF a = <<>> \/ b = <<>> \/ Head(a) # Head(b) THEN 0
    ELSE 1 + CommonPrefix(Tail(a), Tail(b))

\* path.relative(from, to): up from `from` to the shared directory, then
\* down to `to`.
PathRelative(from, to) ==
    LET shared == CommonPrefix(from, to)
    IN  [i \in 1 .. Len(from) - shared |-> ".."]
            \o SubSeq(to, shared + 1, Len(to))

\* A test that lets every path through.
InsideRootAnywhere(rel) == TRUE

\* rel === "" || (!rel.startsWith("..") && !path.isAbsolute(rel)): what
\* path.relative returns is never absolute on one file system.
InsideRoot(rel) == rel = <<>> \/ Head(rel) \notin DotDotNames

\* resolveProjectPath: the message of the error thrown, or nothing.
ResolveError(projectId, relativePath) ==
    IF projectId \notin DOMAIN projects
        THEN Some("projectId not found")
    ELSE IF ~InsideRoot(PathRelative(projects[projectId],
                            PathResolve(projects[projectId], relativePath)))
        THEN Some("Path escapes project root")
    ELSE Undefined

\* requirePath, then resolveProjectPath: the message of the error thrown, or
\* nothing.
PathError(projectId, relativePath) ==
    IF relativePath = BlankPath THEN Some("relativePath is required")
    ELSE ResolveError(projectId, relativePath)

resolveProjectPath(projectId, relativePath) ==
    PathResolve(projects[projectId], relativePath)

----------------------------------------------------------------------------
(* The MIDI codec and the file system the handlers call.                   *)

\* midi.toArray(): the bytes of a sequence.
encode(midi) == [header |-> "MThd", sequence |-> Some(midi)]

\* Bytes that are no MIDI file.
Garbage == [header |-> "junk", sequence |-> Undefined]

\* new MidiCtor(bytes) accepts the bytes.
Decodable(bytes) == bytes.header = "MThd"

\* new MidiCtor(bytes)
decode(bytes) == TheValue(bytes.sequence)

\* The directories there are: fs.writeFile needs the directory of the file.
Directories == {RootPath, RootPath \o <<"sub">>, <<>>}

Writable(absPath) ==
    /\ absPath # <<>>
    /\ SubSeq(absPath, 1, Len(absPath) - 1) \in Directories
    /\ absPath \notin Directories

\* A writeFile that leaves the file system as it is.
WriteFileNowhere(absPath, bytes) == files

\* fs.writeFile(absPath, bytes)
WriteFile(absPath, bytes) ==
    [p \in DOMAIN files \cup {absPath} |->
        IF p = absPath THEN bytes ELSE files[p]]

----------------------------------------------------------------------------
(* midi-repo.ts: identifiers.                                              *)

\* The largest value of Date.now(), and the texts Math.random() can give:
\* identifiers are only compared, so one text is enough for two calls in
\* the same millisecond to collide, and distinct identifiers come from the
\* clock.
MaxClock == 1

Suffixes == {1}

\* The values Date.now() can return at a call: the clock does not go back.
Now == clock .. MaxClock

\* id(prefix), with what Date.now() and Math.random() returned.
id(prefix, now, random) == <<prefix, now, random>>

Ids(prefix) == {id(prefix, now, random) : now \in 0 .. MaxClock,
                                         random \in Suffixes}

----------------------------------------------------------------------------
(* midi-handlers.ts: opening, saving, backing up.                          *)

\* What a handler that changed the stores or the files leaves.
Done(op, args, result) ==
    /\ last' = [op |-> op, status |-> "ok", args |-> args, result |-> result]
    /\ UNCHANGED writes

\* midiStore.set(midiId, entry): an entry under that key is replaced.
MidiStoreSet(midiId, entry) ==
    [m \in DOMAIN midiStore \cup {midiId} |->
        IF m = midiId THEN entry ELSE midiStore[m]]

\* backupStore.set(backupId, entry)
BackupStoreSet(backupId, entry) ==
    [b \in DOMAIN backupStore \cup {backupId} |->
        IF b = backupId THEN entry ELSE backupStore[b]]

\* openMidi({projectId, relativePath}); now and random are what Date.now()
\* and Math.random() return in id("midi").
OpenMidi(projectId, relativePath, now, random) ==
    LET args == [projectId |-> projectId, relativePath |-> relativePath]
        error == PathError(projectId, relativePath)
        absPath == resolveProjectPath(projectId, relativePath)
        midiId == id("midi", now, random)
    IN  IF IsDefined(error)
        THEN Fail("openMidi", args, TheValue(error))
        ELSE IF absPath \notin DOMAIN files
        THEN Fail("openMidi", args, "ENOENT")
        ELSE IF ~Decodable(files[absPath])
        THEN Fail("openMidi", args, "Bad MIDI file")
        ELSE /\ midiStore' = MidiStoreSet(midiId,
                    [id |-> midiId, projectId |-> projectId,
                     path |-> Some(absPath), midi |-> decode(files[absPath]),
                     dirty |-> FALSE, lastBackupId |-> Undefined])
             /\ clock' = now
             /\ Done("openMidi", args, [midiId |-> midiId, path |-> absPath])
             /\ UNCHANGED <<backupStore, files>>

\* closeMidi({midiId})
CloseMidi(midiId) ==
    /\ midiStore' = [m \in DOMAIN midiStore \ {midiId} |-> midiStore[m]]
    /\ Done("closeMidi", [midiId |-> midiId], "closed")
    /\ UNCHANGED <<backupStore, files, clock>>

\* saveAs({midiId, projectId, relativePath})
SaveAs(midiId, projectId, relativePath) ==
    LET args == [midiId |-> midiId, projectId |-> projectId,
                 relativePath |-> relativePath]
    IN  IF ~HasEntry(midiId)
        THEN Fail("saveAs", args, "midiId not found")
        ELSE LET entry == midiStore[midiId]
                 targetProjectId == IF IsDefined(projectId)
                                      THEN TheValue(projectId)
                                      ELSE entry.projectId
                 error == PathError(targetProjectId, relativePath)
                 absPath == resolveProjectPath(targetProjectId, relativePath)
             IN  IF IsDefined(error)
                 THEN Fail("saveAs", args, TheValue(error))
                 ELSE IF ~Writable(absPath)
                 THEN Fail("saveAs", args, "ENOENT")
                 ELSE /\ files' = WriteFile(absPath, encode(entry.midi))
                      /\ midiStore' = [midiStore EXCEPT ![midiId] =
                            [@ EXCEPT !.projectId = targetProjectId,
                                      !.path = Some(absPath),
                                      !.dirty = FALSE]]
                      /\ Done("saveAs", args,
                              [midiId |-> midiId, path |-> absPath])
                      /\ UNCHANGED <<backupStore, clock>>

\* commit({midiId})
Commit(midiId) ==
    LET args == [midiId |-> midiId]
    IN  IF ~HasEntry(midiId)
        THEN Fail("commit", args, "midiId not found")
        ELSE LET entry == midiStore[midiId]
             IN  IF ~IsDefined(entry.path)
                 THEN Fail("commit", args, "No original path for this midiId")
                 ELSE IF ~entry.dirty
                 THEN Answer("commit", args, "noop")
                 ELSE IF ~Writable(TheValue(entry.path))
                 THEN Fail("commit", args, "ENOENT")
                 ELSE /\ files' = WriteFile(TheValue(entry.path),
                                            encode(entry.midi))
                      /\ midiStore' = [midiStore EXCEPT
                                         ![midiId].dirty = FALSE]
                      /\ Done("commit", args, "ok")
                      /\ UNCHANGED <<backupStore, clock>>

\* backup({midiId}); now and random as in OpenMidi, for id("backup").
Backup(midiId, now, random) ==
    LET args == [midiId |-> midiId]
        backupId == id("backup", now, random)
    IN  IF ~HasEntry(midiId)
        THEN Fail("backup", args, "midiId not found")
        ELSE LET entry == midiStore[midiId]
             IN  /\ backupStore' = BackupStoreSet(backupId,
                        [id |-> backupId, projectId |-> entry.projectId,
                         path |-> entry.path, bytes |-> encode(entry.midi)])
                 /\ midiStore' = [midiStore EXCEPT
                                    ![midiId].lastBackupId = Some(backupId)]
                 /\ clock' = now
                 /\ Done("backup", args, [backupId |-> backupId])
                 /\ UNCHANGED files

\* restore({backupId}); now and random as in OpenMidi.
Restore(backupId, now, random) ==
    LET args == [backupId |-> backupId]
        midiId == id("midi", now, random)
    IN  IF backupId \notin DOMAIN backupStore
        THEN Fail("restore", args, "backupId not found")
        ELSE LET backup == backupStore[backupId]
             IN  /\ midiStore' = MidiStoreSet(midiId,
                        [id |-> midiId, projectId |-> backup.projectId,
                         path |-> backup.path, midi |-> decode(backup.bytes),
                         dirty |-> FALSE, lastBackupId |-> Undefined])
                 /\ clock' = now
                 /\ Done("restore", args, [midiId |-> midiId])
                 /\ UNCHANGED <<backupStore, files>>

\* The entry revert leaves whole: its sequence is still dirty.
RevertedDirty(entry, backup) ==
    [entry EXCEPT !.midi = safeUpdateHeader(decode(backup.bytes))]

\* entry.midi = new MidiCtor(backup.bytes); safeUpdateHeader(entry.midi);
\* entry.dirty = false
Reverted(entry, backup) ==
    [entry EXCEPT !.midi = safeUpdateHeader(decode(backup.bytes)),
                  !.dirty = FALSE]

\* revert({midiId})
Revert(midiId) ==
    LET args == [midiId |-> midiId]
    IN  IF ~HasEntry(midiId)
        THEN Fail("revert", args, "midiId not found")
        ELSE IF ~IsDefined(midiStore[midiId].lastBackupId)
        THEN Fail("revert", args, "no backup for this midiId")
        ELSE IF TheValue(midiStore[midiId].lastBackupId)
                    \notin DOMAIN backupStore
        THEN Fail("revert", args, "backupId not found")
        ELSE LET backup ==
                    backupStore[TheValue(midiStore[midiId].lastBackupId)]
             IN  /\ midiStore' = [midiStore EXCEPT
                                    ![midiId] = Reverted(@, backup)]
                 /\ Done("revert", args, "ok")
                 /\ UNCHANGED <<backupStore, files, clock>>

----------------------------------------------------------------------------
(* The session specification: the registries start empty, the project      *)
(* directory holds one MIDI file and one file that is none, and callers    *)
(* open, transpose, back up, restore, revert and close sessions.           *)

\* The most sessions open and the most backups held at a time.
MaxSessions == 2

MaxBackups == 2

SongA == OneTrackMidi(4, <<Note(MaxPitch - 1, 0, 2)>>)

InitialFiles ==
    (RootPath \o <<"a.mid">> :> encode(SongA))
        @@ (RootPath \o <<"bad.mid">> :> Garbage)

ProjectIds == {"default", "other"}

OpenPaths ==
    {RelPath(FALSE, <<"a.mid">>), RelPath(FALSE, <<"bad.mid">>),
     RelPath(FALSE, <<"none.mid">>), RelPath(FALSE, <<"..", "a.mid">>),
     BlankPath}

SavePaths ==
    {RelPath(FALSE, <<"sub", "c.mid">>), RelPath(FALSE, <<"none", "c.mid">>),
     RelPath(FALSE, <<"..", "c.mid">>)}

Init ==
    /\ midiStore = << >>
    /\ backupStore = << >>
    /\ files = InitialFiles
    /\ clock = 0
    /\ last = [op |-> "init", status |-> "ok", args |-> << >>,
               result |-> << >>]
    /\ writes = {}

\* A registry holds at most `most` entries once `key` is set.
Fits(registry, key, most) ==
    Cardinality(DOMAIN registry \cup {key}) <= most

OpenSession ==
    \E projectId \in ProjectIds, relativePath \in OpenPaths,
       now \in Now, random \in Suffixes :
        /\ Fits(midiStore, id("midi", now, random), MaxSessions)
        /\ OpenMidi(projectId, relativePath, now, random)

CloseSession == \E midiId \in Ids("midi") : CloseMidi(midiId)

SaveSession ==
    \E midiId \in Ids("midi"), relativePath \in SavePaths,
       projectId \in {Undefined, Some("other")} :
        SaveAs(midiId, projectId, relativePath)

CommitSession == \E midiId \in Ids("midi") : Commit(midiId)

BackupSession ==
    \E midiId \in Ids("midi"), now \in Now, random \in Suffixes :
        /\ Fits(backupStore, id("backup", now, random), MaxBackups)
        /\ Backup(midiId, now, random)

RestoreSession ==
    \E backupId \in Ids("backup"), now \in Now, random \in Suffixes :
        /\ Fits(midiStore, id("midi", now, random), MaxSessions)
        /\ Restore(backupId, now, random)

RevertSession == \E midiId \in Ids("midi") : Revert(midiId)

TransposeSession ==
    \E midiId \in Ids("midi"), trackId \in {0, 1} :
        Transpose(midiId, trackId, NoRange, NoFilter, 1)

Next ==
    \/ OpenSession
    \/ CloseSession
    \/ BackupSession
    \/ RestoreSession
    \/ RevertSession
    \/ TransposeSession

Spec == Init /\ [][Next]_vars

\* A revert step on a session with a last backup, and on one without.
RevertStep ==
    last'.op = "revert" =>
        LET midiId == last'.args.midiId
        IN  IF HasEntry(midiId) /\ IsDefined(midiStore[midiId].lastBackupId)
            THEN LET backupId == TheValue(midiStore[midiId].lastBackupId)
                 IN  /\ last'.status = "ok"
                     /\ midiStore'[midiId].midi
                            = decode(backupStore[backupId].bytes)
                     /\ ~midiStore'[midiId].dirty
                     /\ midiStore'[midiId].lastBackupId = Some(backupId)
                     /\ UNCHANGED <<backupStore, files>>
            ELSE /\ last'.status = "error"
                 /\ UNCHANGED <<midiStore, backupStore, files>>

\* A session has a last backup only from a backup of that session: openMidi
\* and restore make sessions without one.
LastBackupStep ==
    \A midiId \in DOMAIN midiStore' :
        IsDefined(midiStore'[midiId].lastBackupId) =>
            \/ /\ HasEntry(midiId)
               /\ midiStore[midiId].lastBackupId
                    = midiStore'[midiId].lastBackupId
               /\ ~(last'.op \in {"openMidi", "restore"}
                    /\ last'.status = "ok"
                    /\ last'.result.midiId = midiId)
            \/ /\ last'.op = "backup"
               /\ last'.status = "ok"
               /\ last'.args.midiId = midiId

\* C8: revert on a session whose lastBackupId is set puts the decode of that
\* backup's bytes in the session and clears dirty; revert on a session that
\* was never backed up, a restored one included, fails and changes neither
\* the sessions, the backups nor the files.
C8_Revert == [][RevertStep /\ LastBackupStep]_vars

\* A revert has put back a sequence that is not the one in the session's
\* file.
C8_Witness ==
    /\ last.op = "revert"
    /\ last.status = "ok"
    /\ HasEntry(last.args.midiId)
    /\ LET entry == midiStore[last.args.midiId]
       IN  /\ ~entry.dirty
           /\ IsDefined(entry.lastBackupId)
           /\ entry.midi
                = decode(backupStore[TheValue(entry.lastBackupId)].bytes)
           /\ files[TheValue(entry.path)] # encode(entry.midi)

\* C9: no step changes the bytes, projectId or path of a backup that is
\* stored, or drops it.
C9_BackupImmutable ==
    [][\A backupId \in DOMAIN backupStore :
         /\ backupId \in DOMAIN backupStore'
         /\ backupStore'[backupId] = backupStore[backupId]]_vars

\* C10: the identifier openMidi, restore or backup returns is not the key of
\* an entry there is, so the entry it stores replaces none.
C10_IdsNeverReused ==
    [][/\ (/\ last'.op \in {"openMidi", "restore"}
           /\ last'.status = "ok") => ~HasEntry(last'.result.midiId)
       /\ (/\ last'.op = "backup"
           /\ last'.status = "ok")
             => last'.result.backupId \notin DOMAIN backupStore]_vars

----------------------------------------------------------------------------
(* The persistence specification: one session at a time, transposed, saved *)
(* under another path, committed and closed.                               *)

OpenOne ==
    \E projectId \in ProjectIds, relativePath \in OpenPaths,
       now \in Now, random \in Suffixes :
        /\ Fits(midiStore, id("midi", now, random), 1)
        /\ OpenMidi(projectId, relativePath, now, random)

NextPersist ==
    \/ OpenOne
    \/ SaveSession
    \/ CommitSession
    \/ TransposeSession
    \/ CloseSession

SpecPersist == Init /\ [][NextPersist]_vars

----------------------------------------------------------------------------
(* The path specification: resolveProjectPath applied to a project         *)
(* identifier and a relative path of up to MaxSegments segments.           *)

MaxSegments == 3

\* "..c.mid" is a file name that starts with two dots.
SegmentNames == {"..", "..c.mid", "a.mid", "proj"}

PathInputs ==
    {[projectId |-> projectId, relativePath |-> RelPath(absolute, segs)] :
        projectId \in ProjectIds, absolute \in BOOLEAN,
        segs \in SeqsUpTo(SegmentNames, MaxSegments)}

InitPath ==
    /\ midiStore = << >>
    /\ backupStore = << >>
    /\ files = InitialFiles
    /\ clock = 0
    /\ \E input \in PathInputs :
         last = [op |-> "init", status |-> "ok", args |-> input,
                 result |-> << >>]
    /\ writes = {}

\* repo.resolveProjectPath(projectId, relativePath)
ResolveProjectPath(projectId, relativePath) ==
    LET args == [projectId |-> projectId, relativePath |-> relativePath]
        error == ResolveError(projectId, relativePath)
    IN  IF IsDefined(error)
        THEN Fail("resolveProjectPath", args, TheValue(error))
        ELSE Answer("resolveProjectPath", args,
                    resolveProjectPath(projectId, relativePath))

ResolveInput ==
    /\ last.op = "init"
    /\ ResolveProjectPath(last.args.projectId, last.args.relativePath)

NextPath == ResolveInput

SpecPath == InitPath /\ [][NextPath]_vars

\* The path `inner` is the path `root` or lies beneath it.
Beneath(root, inner) ==
    /\ Len(inner) >= Len(root)
    /\ SubSeq(inner, 1, Len(root)) = root

\* Where the relative path leads from the root of the project, ".."
\* segments taken into account.
Target(relativePath) ==
    Normalized(IF relativePath.absolute THEN <<>> ELSE RootPath,
               relativePath.segs)

\* What resolveProjectPath returns is the root of the project or beneath it.
PathStaysInside ==
    (last.op = "resolveProjectPath" /\ last.status = "ok")
        => Beneath(RootPath, last.result)

\* C11: resolveProjectPath fails for a project that is not registered, fails
\* for a relative path that leads outside the root of the project, and for
\* every other input returns the path it leads to, the root or beneath it.
C11_PathSandbox ==
    last.op = "resolveProjectPath" =>
        IF \/ last.args.projectId \notin DOMAIN projects
           \/ ~Beneath(RootPath, Target(last.args.relativePath))
        THEN last.status = "error"
        ELSE /\ last.status = "ok"
             /\ last.result = Target(last.args.relativePath)
             /\ Beneath(RootPath, last.result)

----------------------------------------------------------------------------
(* humanize. Velocities are hundredths; what Math.random() gives for a     *)
(* note is an argument of the operators.                                   *)

MinVelocity == 0

MaxVelocity == 100

\* timingMs ? timingMs / 1000 : 0, as the ticks it spans at the tempo in
\* force: header.ticksToSeconds and header.secondsToTicks of the MIDI
\* library, for a tempo map whose first entry is the one in force.
TimingTicks(midi, timingMs) ==
    IF ~IsDefined(timingMs) THEN 0
    ELSE LET bpm == IF Len(midi.tempos) = 0 THEN 120 ELSE midi.tempos[1].bpm
         IN  (TheValue(timingMs) * bpm * midi.ppq) \div 60000

\* The shifts (Math.random() * 2 - 1) * amount can give, end points and
\* none.
Shifts(amount) == IF amount = 0 THEN {0} ELSE {0 - amount, 0, amount}

\* note.ticks = Math.max(0, Math.round(targetTicks))
HumanizedTicks(ticks, shift) ==
    IF IsNaN(ticks) THEN NaN ELSE Max(0, ticks + shift)

\* note.velocity = Math.min(1, Math.max(0, note.velocity + delta))
HumanizedVelocity(velocity, delta) ==
    Min(MaxVelocity, Max(MinVelocity, velocity + delta))

\* The loop of humanize over track.notes; shifts[i] and deltas[i] are the
\* draws for the note at position i.
HumanizeNotes(track, range, filter, window, velocity, shifts, deltas) ==
    [i \in 1 .. Len(track.notes) |->
        LET note == track.notes[i]
        IN  IF NoteMatches(note, track, range, filter)
            THEN [note EXCEPT
                    !.ticks = IF window # 0
                                THEN HumanizedTicks(@, shifts[i]) ELSE @,
                    !.velocity = IF IsDefined(velocity)
                                   THEN HumanizedVelocity(@, deltas[i])
                                   ELSE @]
            ELSE note]

\* humanize({midiId, trackId, range, filter, timingMs, velocity})
Humanize(midiId, trackId, range, filter, timingMs, velocity, shifts, deltas) ==
    LET args == [midiId |-> midiId, trackId |-> trackId, range |-> range,
                 filter |-> filter, timingMs |-> timingMs,
                 velocity |-> velocity]
    IN  IF ~HasEntry(midiId)
        THEN Fail("humanize", args, "midiId not found")
        ELSE IF ~HasTrack(midiStore[midiId].midi, trackId)
        THEN Fail("humanize", args, "trackId not found")
        ELSE LET midi == midiStore[midiId].midi
                 track == TrackOf(midi, trackId)
                 notes == HumanizeNotes(track, range, filter,
                                        TimingTicks(midi, timingMs), velocity,
                                        shifts, deltas)
             IN  Mutate("humanize", args, midiId,
                        WithNotes(midi, trackId, notes))

----------------------------------------------------------------------------
(* legato and trimNotes.                                                   *)

\* The notes legato keeps after its two filters, as positions in
\* track.notes with their start ticks, from position i on.
RECURSIVE MatchedFrom(_, _, _, _)
MatchedFrom(track, range, filter, i) ==
    IF i > Len(track.notes) THEN <<>>
    ELSE (IF NoteMatches(track.notes[i], track, range, filter)
            THEN << [idx |-> i, ticks |-> track.notes[i].ticks] >>
            ELSE <<>>)
             \o MatchedFrom(track, range, filter, i + 1)

\* A duration that leaves the gap out.
LegatoDurationNoGap(current, next, gap) ==
    IF IsNaN(current.ticks) \/ IsNaN(next.ticks) THEN NaN
    ELSE Max(1, next.ticks - current.ticks)

\* Math.max(1, next.ticks - current.ticks - gap)
LegatoDuration(current, next, gap) ==
    IF IsNaN(current.ticks) \/ IsNaN(next.ticks) THEN NaN
    ELSE Max(1, next.ticks - current.ticks - gap)

\* The loop of legato over the sorted list, from pair i on.
RECURSIVE LegatoPass(_, _, _, _)
LegatoPass(notes, list, gap, i) ==
    IF i > Len(list) - 1 THEN notes
    ELSE LegatoPass([notes EXCEPT ![list[i].idx].durationTicks =
                        LegatoDuration(notes[list[i].idx],
                                       notes[list[i + 1].idx], gap)],
                    list, gap, i + 1)

\* legato({midiId, trackId, range, filter, gapTicks})
Legato(midiId, trackId, range, filter, gapTicks) ==
    LET args == [midiId |-> midiId, trackId |-> trackId, range |-> range,
                 filter |-> filter, gapTicks |-> gapTicks]
    IN  IF ~HasEntry(midiId)
        THEN Fail("legato", args, "midiId not found")
        ELSE IF ~HasTrack(midiStore[midiId].midi, trackId)
        THEN Fail("legato", args, "trackId not found")
        ELSE LET midi == midiStore[midiId].midi
                 track == TrackOf(midi, trackId)
                 gap == IF IsDefined(gapTicks) THEN TheValue(gapTicks) ELSE 0
                 list == SortByTicks(MatchedFrom(track, range, filter, 1))
             IN  Mutate("legato", args, midiId,
                        WithNotes(midi, trackId,
                                  LegatoPass(track.notes, list, gap, 1)))

\* The positions of the notes trimNotes filters out.
TooShort(track, range, filter, minDur) ==
    {i \in 1 .. Len(track.notes) :
        /\ NoteMatches(track.notes[i], track, range, filter)
        /\ ~(track.notes[i].durationTicks >= minDur)}

\* trimNotes({midiId, trackId, range, filter, minDuration})
TrimNotes(midiId, trackId, range, filter, minDuration) ==
    LET args == [midiId |-> midiId, trackId |-> trackId, range |-> range,
                 filter |-> filter, minDuration |-> minDuration]
    IN  IF ~HasEntry(midiId)
        THEN Fail("trimNotes", args, "midiId not found")
        ELSE IF ~HasTrack(midiStore[midiId].midi, trackId)
        THEN Fail("trimNotes", args, "trackId not found")
        ELSE LET midi == midiStore[midiId].midi
                 track == TrackOf(midi, trackId)
                 minDur == IF IsDefined(minDuration)
                             THEN TheValue(minDuration) ELSE 1
                 gone == TooShort(track, range, filter, minDur)
             IN  Mutate("trimNotes", args, midiId,
                        WithNotes(midi, trackId,
                                  Without(track.notes, gone, 1)))

----------------------------------------------------------------------------
(* Inserting, removing and copying events. Controller and pitch bend       *)
(* values are hundredths.                                                  *)

DefaultVelocity == 80

\* normalizeCcValue(value)
normalizeCcValue(value) ==
    IF value <= 100 THEN value ELSE Min(100, Max(0, value \div 127))

\* An event a caller passes: a note may lack its velocity.
NoteEvent(midi, ticks, durationTicks, velocity) ==
    [type |-> "note", midi |-> midi, number |-> 0, value |-> 0,
     ticks |-> ticks, durationTicks |-> durationTicks, velocity |-> velocity]

CcEvent(number, value, ticks) ==
    [type |-> "cc", midi |-> 0, number |-> number, value |-> value,
     ticks |-> ticks, durationTicks |-> 0, velocity |-> Undefined]

PitchBendEvent(value, ticks) ==
    [type |-> "pitchbend", midi |-> 0, number |-> 0, value |-> value,
     ticks |-> ticks, durationTicks |-> 0, velocity |-> Undefined]

\* track.addCC of the MIDI library: the list of the controller is created
\* when the track has none, and the event goes in at its tick.
addCC(controlChanges, number, cc) ==
    IF number \in DOMAIN controlChanges
        THEN [controlChanges EXCEPT ![number] = InsertByTicks(@, cc)]
        ELSE controlChanges @@ (number :> <<cc>>)

\* addEventToTrack(track, ev); track.addNote and track.addPitchBend of the
\* MIDI library put the event in at its tick.
addEventToTrack(track, ev) ==
    IF ev.type = "note"
    THEN [track EXCEPT !.notes =
            InsertByTicks(@, [midi |-> ev.midi, ticks |-> ev.ticks,
                              durationTicks |-> ev.durationTicks,
                              velocity |-> IF IsDefined(ev.velocity)
                                             THEN TheValue(ev.velocity)
                                             ELSE DefaultVelocity])]
    ELSE IF ev.type = "cc"
    THEN [track EXCEPT !.controlChanges =
            addCC(@, ev.number, [value |-> normalizeCcValue(ev.value),
                                 ticks |-> ev.ticks])]
    ELSE [track EXCEPT !.pitchBends =
            InsertByTicks(@, [value |-> ev.value, ticks |-> ev.ticks])]

\* for (const ev of events) addEventToTrack(track, ev), from event i on.
RECURSIVE AddEventsFrom(_, _, _)
AddEventsFrom(track, events, i) ==
    IF i > Len(events) THEN track
    ELSE AddEventsFrom(addEventToTrack(track, events[i]), events, i + 1)

WithTrack(midi, trackId, track) ==
    [midi EXCEPT !.tracks[trackId + 1] = track]

\* The list an optional payload adds to normalized.
Listed(payload) == IF IsDefined(payload) THEN TheValue(payload) ELSE <<>>

\* insertEvents({midiId, trackId, events, notes, cc, pitchbends})
InsertEvents(midiId, trackId, events, notes, cc, pitchbends) ==
    LET args == [midiId |-> midiId, trackId |-> trackId, events |-> events,
                 notes |-> notes, cc |-> cc, pitchbends |-> pitchbends]
        normalized == Listed(events) \o Listed(notes) \o Listed(cc)
                          \o Listed(pitchbends)
    IN  IF ~HasEntry(midiId)
        THEN Fail("insertEvents", args, "midiId not found")
        ELSE IF ~HasTrack(midiStore[midiId].midi, trackId)
        THEN Fail("insertEvents", args, "trackId not found")
        ELSE IF Len(normalized) = 0
        THEN Fail("insertEvents", args, "insert_events requires at least one")
        ELSE LET midi == midiStore[midiId].midi
             IN  Mutate("insertEvents", args, midiId,
                        WithTrack(midi, trackId,
                                  AddEventsFrom(TrackOf(midi, trackId),
                                                normalized, 1)))

\* filterNotes(track, range, filter)
filterNotes(track, range, filter) ==
    LET gone == {i \in 1 .. Len(track.notes) :
                    NoteMatches(track.notes[i], track, range, filter)}
    IN  [track EXCEPT !.notes = Without(@, gone, 1)]

CcMatches(cc, num, track, range, filter) ==
    /\ inRange(cc.ticks, range)
    /\ matchFilter("cc",
                   [midi |-> Undefined, number |-> Some(num),
                    channel |-> Some(getCcChannel(cc, track))],
                   filter)

\* filterCc(track, range, filter): a controller whose list is left empty
\* loses its entry.
filterCc(track, range, filter) ==
    LET kept(num) ==
            Without(track.controlChanges[num],
                    {i \in 1 .. Len(track.controlChanges[num]) :
                        CcMatches(track.controlChanges[num][i], num, track,
                                  range, filter)},
                    1)
        numbers == {num \in DOMAIN track.controlChanges : kept(num) # <<>>}
    IN  [track EXCEPT !.controlChanges = [num \in numbers |-> kept(num)]]

\* filterPitchBends(track, range, filter)
filterPitchBends(track, range, filter) ==
    LET gone == {i \in 1 .. Len(track.pitchBends) :
                    /\ inRange(track.pitchBends[i].ticks, range)
                    /\ matchFilter("pitchbend",
                                   [midi |-> Undefined, number |-> Undefined,
                                    channel |->
                                        Some(getPitchBendChannel(
                                                 track.pitchBends[i], track))],
                                   filter)}
    IN  [track EXCEPT !.pitchBends = Without(@, gone, 1)]

\* removeEvents({midiId, trackId, range, filter})
RemoveEvents(midiId, trackId, range, filter) ==
    LET args == [midiId |-> midiId, trackId |-> trackId, range |-> range,
                 filter |-> filter]
    IN  IF ~HasEntry(midiId)
        THEN Fail("removeEvents", args, "midiId not found")
        ELSE IF ~HasTrack(midiStore[midiId].midi, trackId)
        THEN Fail("removeEvents", args, "trackId not found")
        ELSE LET midi == midiStore[midiId].midi
                 track == TrackOf(midi, trackId)
             IN  Mutate("removeEvents", args, midiId,
                        WithTrack(midi, trackId,
                                  filterPitchBends(
                                      filterCc(filterNotes(track, range,
                                                           filter),
                                               range, filter),
                                      range, filter)))

\* { ...ev, ticks: Math.max(0, ev.ticks + deltaTicks) } for the events of
\* toEventList, which carry every velocity.
Shifted(ev, deltaTicks) ==
    [type |-> ev.type,
     midi |-> IF ev.type = "note" THEN ev.midi ELSE 0,
     number |-> IF ev.type = "cc" THEN ev.number ELSE 0,
     value |-> IF ev.type = "note" THEN 0 ELSE ev.value,
     ticks |-> IF IsNaN(ev.ticks) THEN NaN ELSE Max(0, ev.ticks + deltaTicks),
     durationTicks |-> IF ev.type = "note" THEN ev.durationTicks ELSE 0,
     velocity |-> IF ev.type = "note" THEN Some(ev.velocity) ELSE Undefined]

\* copyEvents({midiId, srcTrackId, dstTrackId, range, filter, deltaTicks})
CopyEvents(midiId, srcTrackId, dstTrackId, range, filter, deltaTicks) ==
    LET args == [midiId |-> midiId, srcTrackId |-> srcTrackId,
                 dstTrackId |-> dstTrackId, range |-> range,
                 filter |-> filter, deltaTicks |-> deltaTicks]
    IN  IF ~HasEntry(midiId)
        THEN Fail("copyEvents", args, "midiId not found")
        ELSE IF ~HasTrack(midiStore[midiId].midi, srcTrackId)
        THEN Fail("copyEvents", args, "trackId not found")
        ELSE IF ~HasTrack(midiStore[midiId].midi, dstTrackId)
        THEN Fail("copyEvents", args, "trackId not found")
        ELSE LET midi == midiStore[midiId].midi
                 found == toEventList(TrackOf(midi, srcTrackId), range,
                                      filter)
                 events == [i \in 1 .. Len(found) |->
                               Shifted(found[i], deltaTicks)]
             IN  Mutate("copyEvents", args, midiId,
                        WithTrack(midi, dstTrackId,
                                  AddEventsFrom(TrackOf(midi, dstTrackId),
                                                events, 1)))

----------------------------------------------------------------------------
(* Tracks and the timeline.                                                *)

\* midi.addTrack() of the MIDI library: an empty track on channel 0 with
\* instrument 0 goes on the end.
NewTrack == TrackWith(<<>>)

\* What a handler with an answer of its own leaves.
MutateWith(op, args, midiId, midi, result) ==
    /\ midiStore' = [midiStore EXCEPT
                       ![midiId] = markDirty([@ EXCEPT !.midi = midi])]
    /\ last' = [op |-> op, status |-> "ok", args |-> args, result |-> result]
    /\ UNCHANGED <<backupStore, files, clock, writes>>

\* The assignments addTrack and setTrackProps share; a name that is ""
\* leaves a name that is "".
WithProps(track, name, channel, instrument) ==
    [track EXCEPT
        !.name = IF IsDefined(name) THEN TheValue(name) ELSE @,
        !.channel = IF IsDefined(channel) THEN TheValue(channel) ELSE @,
        !.instrument = IF IsDefined(instrument) THEN TheValue(instrument)
                       ELSE @]

\* addTrack({midiId, name, channel, instrument})
AddTrack(midiId, name, channel, instrument) ==
    LET args == [midiId |-> midiId, name |-> name, channel |-> channel,
                 instrument |-> instrument]
    IN  IF ~HasEntry(midiId)
        THEN Fail("addTrack", args, "midiId not found")
        ELSE LET midi == midiStore[midiId].midi
                 track == WithProps(NewTrack, name, channel, instrument)
             IN  MutateWith("addTrack", args, midiId,
                            [midi EXCEPT !.tracks = Append(@, track)],
                            Len(midi.tracks))

\* tracks.splice(trackId, 1)
Spliced(tracks, trackId) ==
    SubSeq(tracks, 1, trackId) \o SubSeq(tracks, trackId + 2, Len(tracks))

\* removeTrack({midiId, trackId})
RemoveTrack(midiId, trackId) ==
    LET args == [midiId |-> midiId, trackId |-> trackId]
    IN  IF ~HasEntry(midiId)
        THEN Fail("removeTrack", args, "midiId not found")
        ELSE IF ~HasTrack(midiStore[midiId].midi, trackId)
        THEN Fail("removeTrack", args, "trackId not found")
        ELSE LET midi == midiStore[midiId].midi
             IN  Mutate("removeTrack", args, midiId,
                        [midi EXCEPT !.tracks = Spliced(@, trackId)])

\* setTrackProps({midiId, trackId, name, channel, instrument})
SetTrackProps(midiId, trackId, name, channel, instrument) ==
    LET args == [midiId |-> midiId, trackId |-> trackId, name |-> name,
                 channel |-> channel, instrument |-> instrument]
    IN  IF ~HasEntry(midiId)
        THEN Fail("setTrackProps", args, "midiId not found")
        ELSE IF ~HasTrack(midiStore[midiId].midi, trackId)
        THEN Fail("setTrackProps", args, "trackId not found")
        ELSE LET midi == midiStore[midiId].midi
             IN  Mutate("setTrackProps", args, midiId,
                        WithTrack(midi, trackId,
                                  WithProps(TrackOf(midi, trackId), name,
                                            channel, instrument)))

\* A change of the timeline, as the description of set_timeline gives it:
\* {type:'tempo',ticks,bpm} or {type:'time_signature',ticks,numerator,
\* denominator}.
TempoChange(ticks, bpm) ==
    [type |-> "tempo", ticks |-> ticks, bpm |-> bpm, numerator |-> 0,
     denominator |-> 0]

TimeSignatureChange(ticks, numerator, denominator) ==
    [type |-> "time_signature", ticks |-> ticks, bpm |-> 0,
     numerator |-> numerator, denominator |-> denominator]

\* The loop of setTimeline over changes, from change i on: the tempos and
\* the time signatures, each in the order the changes name them.
RECURSIVE TemposFrom(_, _)
TemposFrom(changes, i) ==
    IF i > Len(changes) THEN <<>>
    ELSE (IF changes[i].type = "tempo"
            THEN << [ticks |-> changes[i].ticks, bpm |-> changes[i].bpm] >>
            ELSE <<>>) \o TemposFrom(changes, i + 1)

RECURSIVE TimeSignaturesFrom(_, _)
TimeSignaturesFrom(changes, i) ==
    IF i > Len(changes) THEN <<>>
    ELSE (IF changes[i].type # "tempo"
            THEN << [ticks |-> changes[i].ticks,
                     num |-> changes[i].numerator,
                     denom |-> changes[i].denominator] >>
            ELSE <<>>) \o TimeSignaturesFrom(changes, i + 1)

\* The header setTimeline leaves before markDirty.
WithTimeline(midi, changes) ==
    LET tempos == TemposFrom(changes, 1)
        timeSignatures == TimeSignaturesFrom(changes, 1)
        sigs == IF Len(timeSignatures) > 0 THEN SortByTicks(timeSignatures)
                ELSE midi.timeSignatures
    IN  safeUpdateHeader(
            [midi EXCEPT
                !.tempos = IF Len(tempos) > 0 THEN SortByTicks(tempos) ELSE @,
                !.timeSignatures = IF Len(sigs) = 0
                                     THEN defaultTimeSignatures ELSE sigs])

\* setTimeline({midiId, changes})
SetTimeline(midiId, changes) ==
    LET args == [midiId |-> midiId, changes |-> changes]
    IN  IF ~HasEntry(midiId)
        THEN Fail("setTimeline", args, "midiId not found")
        ELSE Mutate("setTimeline", args, midiId,
                    WithTimeline(midiStore[midiId].midi, changes))

----------------------------------------------------------------------------
(* The edit specification: one session of two tracks, opened from a file   *)
(* with or without tempo and time signature events; one call of any        *)
(* transform or edit, then the transforms that follow a humanize or a      *)
(* quantize.                                                               *)

MaxEditTick == 4

AbsentMidiId == <<"midi", 0, 2>>

EditTempoMaps == {<<>>, << [ticks |-> 0, bpm |-> 120] >>}

EditSigMaps == {<<>>, defaultTimeSignatures}

LeadTrack ==
    [TrackWith(<<Note(60, 0, 2), Note(62, 1, 2), Note(64, MaxEditTick, 1)>>)
        EXCEPT !.controlChanges = (7 :> << [value |-> 50, ticks |-> 1] >>),
               !.pitchBends = << [value |-> 0, ticks |-> 2] >>]

BassTrack == [TrackWith(<<Note(48, 2, 4)>>) EXCEPT !.channel = 1]

EditMidis ==
    {[ppq |-> 4, tempos |-> tempos, timeSignatures |-> sigs,
      tracks |-> <<LeadTrack, BassTrack>>] :
        tempos \in EditTempoMaps, sigs \in EditSigMaps}

EditMidiIds == {TheMidiId, AbsentMidiId}

EditTrackIds == {0, 1, 2}

EditRanges ==
    {NoRange, Range(Some(1), Some(MaxEditTick)),
     Range(Some(MaxEditTick + 4), Undefined)}

EditFilters ==
    {NoFilter, Filter(Some({"note"}), Some({60}), Undefined, Undefined),
     Filter(Undefined, Undefined, Undefined, Undefined),
     Filter(Undefined, Some({60, 48}), Some({1}), Some({0}))}

EditGrids ==
    {GridNumber(2), GridNumber(0), GridString(<<"1", "/", "8">>),
     GridString(<<"1", "/", "6", "4">>), GridString(<<"1", "/", "x">>)}

\* <<timingMs, velocity>>
EditAmounts ==
    {<<Undefined, Undefined>>, <<Some(125), Undefined>>,
     <<Undefined, Some(10)>>, <<Some(0), Some(0)>>}

EditPayloads ==
    {Undefined, Some(<<>>),
     Some(<<NoteEvent(61, 1, 1, Undefined)>>),
     Some(<<CcEvent(7, 100, 0), PitchBendEvent(0 - 50, 3),
            NoteEvent(65, 0, 3, Some(100))>>)}

EditNames == {Undefined, Some(""), Some("pad")}

EditChanges ==
    {<<>>,
     <<TempoChange(0, 100)>>,
     <<TempoChange(8, 90), TempoChange(0, 100)>>,
     <<TempoChange(8, 90), TempoChange(8, 100)>>,
     <<TimeSignatureChange(16, 3, 4), TimeSignatureChange(0, 4, 4)>>,
     <<TimeSignatureChange(0, 3, 4), TempoChange(0, 100),
       TimeSignatureChange(0, 4, 4)>>}

TheBackupId == id("backup", 0, 1)

\* The session has been opened from a.mid and backed up once.
InitEdit ==
    /\ \E midi \in EditMidis :
         /\ midiStore =
              (TheMidiId :> [CleanEntry(midi) EXCEPT
                                !.lastBackupId = Some(TheBackupId)])
         /\ backupStore =
              (TheBackupId :>
                  [id |-> TheBackupId, projectId |-> "default",
                   path |-> Some(RootPath \o <<"a.mid">>),
                   bytes |-> encode(midi)])
         /\ files = (RootPath \o <<"a.mid">> :> encode(midi))
    /\ clock = 0
    /\ last = [op |-> "init", status |-> "ok", args |-> << >>,
               result |-> << >>]
    /\ writes = {}

EditQuantize ==
    /\ last.op = "init"
    /\ \E midiId \in EditMidiIds, trackId \in EditTrackIds,
          range \in EditRanges, filter \in EditFilters, grid \in EditGrids :
         Quantize(midiId, trackId, range, filter, grid, Undefined, Undefined)

EditHumanize ==
    /\ last.op = "init"
    /\ \E midiId \in EditMidiIds, trackId \in EditTrackIds,
          range \in EditRanges, filter \in EditFilters,
          amount \in EditAmounts :
         LET count == IF HasEntry(midiId)
                           /\ HasTrack(midiStore[midiId].midi, trackId)
                        THEN Len(TrackOf(midiStore[midiId].midi,
                                         trackId).notes)
                        ELSE 0
             window == IF HasEntry(midiId)
                         THEN TimingTicks(midiStore[midiId].midi, amount[1])
                         ELSE 0
             size == IF IsDefined(amount[2]) THEN TheValue(amount[2]) ELSE 0
         IN  \E shifts \in [1 .. count -> Shifts(window)],
                deltas \in [1 .. count -> Shifts(size)] :
               Humanize(midiId, trackId, range, filter, amount[1],
                        amount[2], shifts, deltas)

EditTranspose ==
    /\ last.op = "init"
    /\ \E midiId \in EditMidiIds, trackId \in EditTrackIds,
          range \in EditRanges, filter \in EditFilters,
          semitones \in {0 - 61, 1, 70} :
         Transpose(midiId, trackId, range, filter, semitones)

EditConstrain ==
    /\ last.op = "init"
    /\ \E midiId \in EditMidiIds, trackId \in EditTrackIds,
          range \in EditRanges, filter \in EditFilters,
          key \in {"D", "H"}, scale \in {"major", "lydian"} :
         ConstrainToScale(midiId, trackId, range, filter, key, scale,
                          "nearest")

EditFixOverlaps ==
    /\ last.op = "init"
    /\ \E midiId \in EditMidiIds, trackId \in EditTrackIds,
          range \in EditRanges, filter \in EditFilters,
          mode \in {"trim", "remove"} :
         FixOverlaps(midiId, trackId, range, filter, mode)

EditLegato ==
    /\ last.op = "init"
    /\ \E midiId \in EditMidiIds, trackId \in EditTrackIds,
          range \in EditRanges, filter \in EditFilters,
          gapTicks \in {Undefined, Some(0), Some(MaxEditTick)} :
         Legato(midiId, trackId, range, filter, gapTicks)

EditTrimNotes ==
    /\ last.op = "init"
    /\ \E midiId \in EditMidiIds, trackId \in EditTrackIds,
          range \in EditRanges, filter \in EditFilters,
          minDuration \in {Undefined, Some(2)} :
         TrimNotes(midiId, trackId, range, filter, minDuration)

EditInsertEvents ==
    /\ last.op = "init"
    /\ \E midiId \in EditMidiIds, trackId \in EditTrackIds,
          events \in EditPayloads,
          notes \in {Undefined, Some(<<>>),
                     Some(<<NoteEvent(61, 1, 1, Undefined)>>)} :
         InsertEvents(midiId, trackId, events, notes, Undefined, Undefined)

EditRemoveEvents ==
    /\ last.op = "init"
    /\ \E midiId \in EditMidiIds, trackId \in EditTrackIds,
          range \in EditRanges,
          filter \in EditFilters \cup
                     {Filter(Some({"cc"}), Undefined, Some({7}), Undefined)} :
         RemoveEvents(midiId, trackId, range, filter)

EditCopyEvents ==
    /\ last.op = "init"
    /\ \E midiId \in EditMidiIds, srcTrackId \in EditTrackIds,
          dstTrackId \in EditTrackIds, range \in EditRanges,
          filter \in EditFilters, deltaTicks \in {0 - 2, 0, 3} :
         CopyEvents(midiId, srcTrackId, dstTrackId, range, filter,
                    deltaTicks)

EditAddTrack ==
    /\ last.op = "init"
    /\ \E midiId \in EditMidiIds, name \in EditNames,
          channel \in {Undefined, Some(9)},
          instrument \in {Undefined, Some(33)} :
         AddTrack(midiId, name, channel, instrument)

EditRemoveTrack ==
    /\ last.op = "init"
    /\ \E midiId \in EditMidiIds, trackId \in EditTrackIds :
         RemoveTrack(midiId, trackId)

EditSetTrackProps ==
    /\ last.op = "init"
    /\ \E midiId \in EditMidiIds, trackId \in EditTrackIds,
          name \in EditNames, channel \in {Undefined, Some(9)},
          instrument \in {Undefined, Some(33)} :
         SetTrackProps(midiId, trackId, name, channel, instrument)

EditSetTimeline ==
    /\ last.op = "init"
    /\ \E midiId \in EditMidiIds, changes \in EditChanges :
         SetTimeline(midiId, changes)

EditGetEvents ==
    /\ last.op = "init"
    /\ \E midiId \in EditMidiIds, trackId \in EditTrackIds,
          range \in EditRanges,
          filter \in EditFilters \cup
                     {Filter(Some({"cc"}), Undefined, Some({7}), Undefined)} :
         GetEvents(midiId, trackId, range, filter, Undefined, Undefined)

\* A humanize that went through is followed by a quantize.
QuantizeNext ==
    /\ last.op = "humanize"
    /\ last.status = "ok"
    /\ \E grid \in {GridNumber(2), GridNumber(0)} :
         Quantize(TheMidiId, last.args.trackId, last.args.range, NoFilter,
                  grid, Undefined, Undefined)

\* A quantize that went through is followed by another transform.
TransposeNext ==
    /\ last.op = "quantize"
    /\ last.status = "ok"
    /\ \E range \in EditRanges :
         Transpose(TheMidiId, last.args.trackId, range, NoFilter, 1)

LegatoNext ==
    /\ last.op = "quantize"
    /\ last.status = "ok"
    /\ Legato(TheMidiId, last.args.trackId, NoRange, NoFilter, Undefined)

TrimNotesNext ==
    /\ last.op = "quantize"
    /\ last.status = "ok"
    /\ TrimNotes(TheMidiId, last.args.trackId, NoRange, NoFilter, Some(2))

NextEdit ==
    \/ EditQuantize
    \/ EditHumanize
    \/ EditTranspose
    \/ EditConstrain
    \/ EditFixOverlaps
    \/ EditLegato
    \/ EditTrimNotes
    \/ EditInsertEvents
    \/ EditRemoveEvents
    \/ EditCopyEvents
    \/ EditAddTrack
    \/ EditRemoveTrack
    \/ EditSetTrackProps
    \/ EditSetTimeline
    \/ EditGetEvents
    \/ QuantizeNext
    \/ TransposeNext
    \/ LegatoNext
    \/ TrimNotesNext

SpecEdit == InitEdit /\ [][NextEdit]_vars

EditOps ==
    {"quantize", "humanize", "transpose", "constrainToScale", "fixOverlaps",
     "legato", "trimNotes", "insertEvents", "removeEvents", "copyEvents",
     "addTrack", "removeTrack", "setTrackProps", "setTimeline"}

\* The range of EditRanges that no event of an opened file starts in.
EmptyRange == Range(Some(MaxEditTick + 4), Undefined)

\* C12: when a transform or an edit has completed successfully, the session
\* it was given is dirty, also when its range and filter matched no event.
C12_DirtyAfterEdit ==
    (last.op \in EditOps /\ last.status = "ok")
        => midiStore[last.args.midiId].dirty

\* A transpose over a range that holds no event went through: the track is
\* as the file gave it and the session is dirty.
C12_Witness ==
    /\ last.op = "transpose"
    /\ last.status = "ok"
    /\ last.args.trackId = 0
    /\ last.args.range = EmptyRange
    /\ TheTrack = LeadTrack
    /\ midiStore[TheMidiId].dirty

----------------------------------------------------------------------------
(* commit and saveAs, under SpecPersist.                                   *)

\* A step of commit on the session e that is there before it.
CommitStep(e) ==
    /\ ~IsDefined(e.path) =>
         (last'.status = "error" /\ UNCHANGED <<midiStore, backupStore, files>>)
    /\ (IsDefined(e.path) /\ ~e.dirty) =>
         /\ last'.status = "ok"
         /\ last'.result = "noop"
         /\ UNCHANGED <<midiStore, backupStore, files>>
    /\ (IsDefined(e.path) /\ e.dirty) =>
         /\ last'.status = "ok"
         /\ TheValue(e.path) \in DOMAIN files'
         /\ files'[TheValue(e.path)] = encode(e.midi)
         /\ midiStore' = [midiStore EXCEPT ![e.id].dirty = FALSE]

\* A step of saveAs that went through, on the session e.
SaveAsStep(e) ==
    LET projectId == IF IsDefined(last'.args.projectId)
                       THEN TheValue(last'.args.projectId) ELSE e.projectId
        absPath == resolveProjectPath(projectId, last'.args.relativePath)
    IN  /\ absPath \in DOMAIN files'
        /\ files'[absPath] = encode(e.midi)
        /\ midiStore'[e.id].path = Some(absPath)
        /\ midiStore'[e.id].midi = e.midi
        /\ ~midiStore'[e.id].dirty

\* C13: commit fails and changes nothing on a session without a path, is a
\* no-op that writes nothing on a clean session, and on a dirty session with
\* a path writes the encoded sequence there and leaves the session clean;
\* saveAs writes to the resolved path, records it as the session's path and
\* leaves the session clean.
C13_CommitAndSaveAs ==
    [][/\ (last'.op = "commit" /\ HasEntry(last'.args.midiId))
            => CommitStep(midiStore[last'.args.midiId])
       /\ (last'.op = "saveAs" /\ last'.status = "ok")
            => SaveAsStep(midiStore[last'.args.midiId])]_vars

\* A session saved under sub/c.mid and transposed since has been committed:
\* the file there holds the transposed sequence.
C13_Witness ==
    /\ last.op = "commit"
    /\ last.status = "ok"
    /\ last.result = "ok"
    /\ HasEntry(last.args.midiId)
    /\ LET e == midiStore[last.args.midiId]
       IN  /\ e.path = Some(RootPath \o <<"sub", "c.mid">>)
           /\ ~e.dirty
           /\ e.midi # SongA
           /\ files[TheValue(e.path)] = encode(e.midi)

----------------------------------------------------------------------------
(* The timeline after an edit, under SpecEdit.                             *)

\* The session a call that went through was given.
Edited == midiStore[last.args.midiId].midi

\* C14: after a transform or an edit that went through, the tempo map and
\* the time signature map of the session both hold an entry.
C14_MapsNonEmpty ==
    (last.op \in EditOps /\ last.status = "ok")
        => (Len(Edited.tempos) > 0 /\ Len(Edited.timeSignatures) > 0)

\* What setTimeline alone ensures: a time signature map that holds an entry.
SetTimelineGivesSignature ==
    (last.op = "setTimeline" /\ last.status = "ok")
        => Len(Edited.timeSignatures) > 0

Ascending(map) ==
    \A i \in 1 .. Len(map) - 1 : map[i].ticks <= map[i + 1].ticks

UniqueTicks(map) ==
    \A i, j \in 1 .. Len(map) : map[i].ticks = map[j].ticks => i = j

\* C15: the tempo map and the time signature map of every session are in
\* ascending order of tick and hold no two entries at the same tick,
\* whatever list of changes setTimeline was given.
C15_MapsSortedUnique ==
    \A midiId \in DOMAIN midiStore :
        LET midi == midiStore[midiId].midi
        IN  /\ Ascending(midi.tempos) /\ UniqueTicks(midi.tempos)
            /\ Ascending(midi.timeSignatures)
            /\ UniqueTicks(midi.timeSignatures)

\* The half that setTimeline and markDirty ensure: ascending order.
MapsAscending ==
    \A midiId \in DOMAIN midiStore :
        /\ Ascending(midiStore[midiId].midi.tempos)
        /\ Ascending(midiStore[midiId].midi.timeSignatures)

----------------------------------------------------------------------------
(* toTicks and its three units, under SpecBbt.                             *)

Units == {"bbt", "quarterNotes", "seconds"}

\* The units the last call of toTicks supplied.
Supplied == {unit \in Units : IsDefined(last.args[unit])}

\* C16: toTicks on an open session fails, with no tick value, when none or
\* more than one of bbt, quarterNotes and seconds is supplied, and converts
\* the one that is supplied otherwise: quarter notes times the resolution,
\* seconds at the tempo of the session (120 bpm, two quarter notes a
\* second), a position by bbtToTicks.
C16_ExactlyOneUnit ==
    (last.op = "toTicks" /\ HasEntry(last.args.midiId)) =>
        LET midi == midiStore[last.args.midiId].midi
        IN  IF Cardinality(Supplied) # 1
            THEN last.status = "error"
            ELSE /\ last.status = "ok"
                 /\ IsDefined(last.args.quarterNotes) =>
                      last.result = TheValue(last.args.quarterNotes) * midi.ppq
                 /\ IsDefined(last.args.seconds) =>
                      last.result = 2 * TheValue(last.args.seconds) * midi.ppq
                 /\ IsDefined(last.args.bbt) =>
                      last.result = bbtToTicks(midi, TheValue(last.args.bbt))

\* toTicks was given 0 quarter notes and nothing else, and answered 0.
C16_Witness ==
    /\ last.op = "toTicks"
    /\ last.status = "ok"
    /\ Supplied = {"quarterNotes"}
    /\ last.args.quarterNotes = Some(0)
    /\ last.result = 0

\* toTicks was given all three units and failed.
ThreeUnitsRefused ==
    /\ last.op = "toTicks"
    /\ last.status = "error"
    /\ Supplied = Units

----------------------------------------------------------------------------
(* Calls that fail, under SpecEdit.                                        *)

TrackOps == EditOps \ {"copyEvents", "addTrack", "setTimeline"}

\* The call has one of the faults: an unknown midiId, an unknown trackId,
\* a grid string that is not "1/N", an unknown key or scale, an empty
\* payload for insertEvents, an unknown source or destination for
\* copyEvents.
Faulty(op, args) ==
    \/ ~HasEntry(args.midiId)
    \/ /\ HasEntry(args.midiId)
       /\ LET midi == midiStore[args.midiId].midi
          IN  \/ op \in TrackOps /\ ~HasTrack(midi, args.trackId)
              \/ /\ op = "copyEvents"
                 /\ \/ ~HasTrack(midi, args.srcTrackId)
                    \/ ~HasTrack(midi, args.dstTrackId)
              \/ /\ op = "quantize"
                 /\ args.grid.kind = "string"
                 /\ ~GridMatches(args.grid.chars)
              \/ /\ op = "constrainToScale"
                 /\ \/ \A i \in 1 .. Len(keys) : keys[i] # toUpperCase(args.key)
                    \/ args.scale \notin DOMAIN scales
              \/ /\ op = "insertEvents"
                 /\ Listed(args.events) \o Listed(args.notes)
                        \o Listed(args.cc) \o Listed(args.pitchbends) = <<>>

\* C17: a call that has one of the faults fails, and leaves both registries
\* as they were: every session with its sequence, dirty flag and
\* lastBackupId, and every backup.
C17_NoPartialMutation ==
    [][(last'.op \in EditOps /\ Faulty(last'.op, last'.args))
          => /\ last'.status = "error"
             /\ UNCHANGED <<midiStore, backupStore, files>>]_vars

\* copyEvents from the first track to a track that is not there has failed:
\* the session is clean, holds what the file gave and the backup it had.
C17_Witness ==
    /\ last.op = "copyEvents"
    /\ last.status = "error"
    /\ last.args.midiId = TheMidiId
    /\ last.args.srcTrackId = 0
    /\ last.args.dstTrackId = 2
    /\ last.args.range = NoRange
    /\ ~midiStore[TheMidiId].dirty
    /\ midiStore[TheMidiId].midi.tracks = <<LeadTrack, BassTrack>>
    /\ midiStore[TheMidiId].lastBackupId = Some(TheBackupId)
    /\ TheBackupId \in DOMAIN backupStore

----------------------------------------------------------------------------
(* Identifiers that are not registered, under Spec.                        *)

\* A step of a call that names a session, a backup or a track that is not
\* there ends in an error, for the operations in ops.
NotFoundFails(ops) ==
    /\ (/\ last'.op \in ops \cap {"closeMidi", "backup", "revert", "transpose"}
        /\ ~HasEntry(last'.args.midiId)) => last'.status = "error"
    /\ (/\ last'.op \in ops \cap {"restore"}
        /\ last'.args.backupId \notin DOMAIN backupStore)
          => last'.status = "error"
    /\ (/\ last'.op \in ops \cap {"transpose"}
        /\ HasEntry(last'.args.midiId)
        /\ ~HasTrack(midiStore[last'.args.midiId].midi, last'.args.trackId))
          => last'.status = "error"

\* C18: every operation that takes a session identifier, closeMidi
\* included, or a backup identifier fails when the identifier is not in its
\* registry, and an operation that takes a trackId fails when the session
\* has no such track.
C18_NotFound ==
    [][NotFoundFails({"closeMidi", "backup", "restore", "revert",
                      "transpose"})]_vars

\* The same for every operation but closeMidi.
NotFoundButClose ==
    [][NotFoundFails({"backup", "restore", "revert", "transpose"})]_vars

----------------------------------------------------------------------------
(* What the transforms leave alone, under SpecEdit.                        *)

Transforms ==
    {"quantize", "humanize", "transpose", "constrainToScale", "fixOverlaps",
     "legato", "trimNotes"}

\* The range has a bound.
Bounded(range) ==
    /\ IsDefined(range)
    /\ \/ IsDefined(TheValue(range).startTicks)
       \/ IsDefined(TheValue(range).endTicks)

\* The start of the note is outside the range, or the note fails the
\* filter. A start that is no number is inside no range that has a bound.
Outside(note, track, range, filter) ==
    \/ ~NoteMatches(note, track, range, filter)
    \/ IsNaN(note.ticks) /\ Bounded(range)

\* How many times the note n is in notes.
Count(notes, n) == Cardinality({i \in 1 .. Len(notes) : notes[i] = n})

\* The step of a transform that was given args: what it leaves of the
\* sequence `before`, in the sequence `after`.
Framed(before, after, args) ==
    LET track == TrackOf(before, args.trackId)
        left == TrackOf(after, args.trackId)
    IN  /\ Len(after.tracks) = Len(before.tracks)
        /\ \A t \in 1 .. Len(before.tracks) :
             t # args.trackId + 1 => after.tracks[t] = before.tracks[t]
        /\ left.controlChanges = track.controlChanges
        /\ left.pitchBends = track.pitchBends
        /\ \A i \in 1 .. Len(track.notes) :
             Outside(track.notes[i], track, args.range, args.filter)
                => Count(left.notes, track.notes[i])
                     >= Count(track.notes, track.notes[i])

\* C19: a transform that went through has left every note that starts
\* outside its range or fails its filter in the track, with its pitch,
\* start, duration and velocity, and has left the controller events, the
\* pitch bends and the other tracks as they were.
C19_Frame ==
    [][(last'.op \in Transforms /\ last'.status = "ok")
          => Framed(midiStore[last'.args.midiId].midi,
                    midiStore'[last'.args.midiId].midi, last'.args)]_vars

IntegerTicks(midi) ==
    \A t \in 1 .. Len(midi.tracks) :
        \A i \in 1 .. Len(midi.tracks[t].notes) :
            ~IsNaN(midi.tracks[t].notes[i].ticks)

\* The same for a transform of a sequence whose notes all start at a tick.
FrameOfIntegerTicks ==
    [][(/\ last'.op \in Transforms
        /\ last'.status = "ok"
        /\ IntegerTicks(midiStore[last'.args.midiId].midi))
          => Framed(midiStore[last'.args.midiId].midi,
                    midiStore'[last'.args.midiId].midi, last'.args)]_vars

----------------------------------------------------------------------------
(* The notes a transform leaves, under SpecEdit.                           *)

\* A start tick that is an integer >= 0, a pitch in 0..127, a duration >= 1
\* and a velocity in [0, 1].
WellFormed(note) ==
    /\ ~IsNaN(note.ticks)
    /\ note.ticks >= 0
    /\ note.midi >= MinPitch
    /\ note.midi <= MaxPitch
    /\ ~IsNaN(note.durationTicks)
    /\ note.durationTicks >= 1
    /\ note.velocity >= MinVelocity
    /\ note.velocity <= MaxVelocity

AllWellFormed(midi) ==
    \A t \in 1 .. Len(midi.tracks) :
        \A i \in 1 .. Len(midi.tracks[t].notes) :
            WellFormed(midi.tracks[t].notes[i])

\* C20: after any transform, or copyEvents, that went through, and after any
\* sequence of them, every note of the session has an integer start tick
\* >= 0, a pitch in 0..127, a duration >= 1 and a velocity in [0, 1].
C20_NotesWellFormed ==
    (last.op \in Transforms \cup {"copyEvents"} /\ last.status = "ok")
        => AllWellFormed(Edited)

\* The same for the sessions whose notes all start at a tick: there the
\* pitch, the duration and the velocity are in range.
WellFormedOfIntegerTicks ==
    \A midiId \in DOMAIN midiStore :
        IntegerTicks(midiStore[midiId].midi)
            => AllWellFormed(midiStore[midiId].midi)

----------------------------------------------------------------------------
(* constrainNote with the strategy nearest, under SpecScale.               *)

\* The nearest pitch above p, and below p, whose class is allowed.
Above(p, allowed) ==
    CHOOSE q \in (p + 1) .. (p + 11) :
        /\ (q % 12) \in allowed
        /\ \A r \in (p + 1) .. (q - 1) : (r % 12) \notin allowed

Below(p, allowed) ==
    CHOOSE q \in (p - 11) .. (p - 1) :
        /\ ((q + 1200) % 12) \in allowed
        /\ \A r \in (q + 1) .. (p - 1) : ((r + 1200) % 12) \notin allowed

\* The closer of the two, and on a tie the one the flag names.
Nearest(p, allowed, tieUp) ==
    LET up == Above(p, allowed)
        down == Below(p, allowed)
    IN  IF up - p < p - down THEN up
        ELSE IF up - p > p - down THEN down
        ELSE IF tieUp THEN up ELSE down

\* A step of constrainToScale with the strategy nearest that covers the
\* first note of the track, whose class is not allowed, stores the pitch
\* Nearest gives, clamped to 0..127.
NearestStep(tieUp) ==
    (/\ last'.op = "constrainToScale"
     /\ last'.status = "ok"
     /\ last'.args.strategy = "nearest"
     /\ last'.args.trackId = 0
     /\ NoteMatches(TheNotes[1], TheTrack, last'.args.range,
                    last'.args.filter)
     /\ (TheNotes[1].midi % 12)
            \notin buildScale(last'.args.key, last'.args.scale))
        => TheNotes'[1].midi =
             Min(MaxPitch,
                 Max(MinPitch,
                     Nearest(TheNotes[1].midi,
                             buildScale(last'.args.key, last'.args.scale),
                             tieUp)))

\* C21: with the strategy nearest a pitch whose class is not allowed goes
\* to the closer of the nearest allowed pitch above and the nearest allowed
\* pitch below, and to the one above when both are as far.
C21_NearestTieUp == [][NearestStep(TRUE)]_vars

\* The same with the one below when both are as far.
NearestTieDown == [][NearestStep(FALSE)]_vars

----------------------------------------------------------------------------
(* bbtToTicks at a change of time signature, under SpecBbt.                *)

\* The time signature map of the session, and the length of a bar of its
\* entry i.
TheSigs == midiStore[TheMidiId].midi.timeSignatures

BarLength(i) ==
    TicksPerBeat(midiStore[TheMidiId].midi.ppq, TheSigs[i].denom)
        * TheSigs[i].num

\* The map changes once, on a bar line of its first entry.
ChangeOnBarLine == Len(TheSigs) = 2 /\ TheSigs[2].ticks % BarLength(1) = 0

\* The bar that starts at the tick of the change.
ChangeBar == (TheSigs[2].ticks \div BarLength(1)) + 1

\* The ticks of a position in the bar of the change or after it, by the
\* second entry of the map.
FromChange(bbt) ==
    TheSigs[2].ticks + (bbt.bar - ChangeBar) * BarLength(2)
        + (bbt.beat - 1)
            * TicksPerBeat(midiStore[TheMidiId].midi.ppq, TheSigs[2].denom)
        + bbt.tick

\* toTicks has answered for a position whose bar is at least `bar` bars
\* after the start of the last entry of the map.
AnsweredFrom(bar) ==
    /\ last.op = "toTicks"
    /\ last.status = "ok"
    /\ IsDefined(last.args.bbt)
    /\ ChangeOnBarLine
    /\ TheValue(last.args.bbt).bar >= ChangeBar + bar

\* C22: a position in the bar that starts at the tick of a change of time
\* signature, or in a later bar, is converted with the signature of the
\* change: the tick of the change, the later bars at their length, the
\* beats at the ticks per beat of that signature, and the tick.
C22_BarAtChange ==
    AnsweredFrom(0) => last.result = FromChange(TheValue(last.args.bbt))

\* The same for the bars after the bar of the change.
BarsAfterChange ==
    AnsweredFrom(1) => last.result = FromChange(TheValue(last.args.bbt))

----------------------------------------------------------------------------
(* fixOverlaps in mode remove, under SpecOverlap.                          *)

\* The positions of the notes of the track whose predecessor in their
\* (pitch, channel) list ends after they start.
Overlapped(track, range, filter) ==
    {j \in 1 .. Len(track.notes) :
        \E i \in 1 .. Len(track.notes) :
            /\ NextInList(track, range, filter, i, j)
            /\ track.notes[i].ticks + track.notes[i].durationTicks
                  > track.notes[j].ticks}

\* C23: a step of fixOverlaps in mode remove leaves the notes of the track
\* without those whose predecessor in their list ends after they start, and
\* leaves the others in their order with their durations.
C23_RemoveOverlapped ==
    [][(/\ last'.op = "fixOverlaps"
        /\ last'.status = "ok"
        /\ last'.args.mode = "remove")
          => TheNotes' = Without(TheNotes,
                                 Overlapped(TheTrack, last'.args.range,
                                            last'.args.filter), 1)]_vars

\* fixOverlaps in mode remove over the whole track has gone through: one
\* note of pitch 60 is left, and the note of pitch 61 that starts inside it.
C23_Witness ==
    /\ last.op = "fixOverlaps"
    /\ last.status = "ok"
    /\ last.args.mode = "remove"
    /\ last.args.range = NoRange
    /\ last.args.filter = NoFilter
    /\ midiStore[TheMidiId].dirty
    /\ TheNotes = <<Note(60, 0, 3), Note(61, 1, 2)>>

----------------------------------------------------------------------------
(* legato, under SpecEdit.                                                 *)

\* Note j is the next matching note after note i in the order of start
\* ticks, notes that start together in the order of the track.
Follows(track, range, filter, i, j) ==
    LET notes == track.notes
        matches(k) == NoteMatches(notes[k], track, range, filter)
    IN  /\ i # j
        /\ matches(i)
        /\ matches(j)
        /\ Before(notes, i, j)
        /\ \A k \in 1 .. Len(notes) :
             (k # i /\ k # j /\ matches(k))
                => ~(Before(notes, i, k) /\ Before(notes, k, j))

\* What legato with these arguments leaves of the track `before`, in the
\* track `after`.
Chained(before, after, args) ==
    LET gap == IF IsDefined(args.gapTicks) THEN TheValue(args.gapTicks) ELSE 0
        n == Len(before.notes)
    IN  /\ Len(after.notes) = n
        /\ \A i \in 1 .. n :
             /\ after.notes[i].ticks = before.notes[i].ticks
             /\ after.notes[i].midi = before.notes[i].midi
             /\ after.notes[i].velocity = before.notes[i].velocity
             /\ \A j \in 1 .. n :
                  Follows(before, args.range, args.filter, i, j)
                     => after.notes[i].durationTicks =
                          Max(1, before.notes[j].ticks
                                    - before.notes[i].ticks - gap)
             /\ (\A j \in 1 .. n :
                    ~Follows(before, args.range, args.filter, i, j))
                  => after.notes[i].durationTicks
                        = before.notes[i].durationTicks

\* C24: a step of legato on a track whose notes all start at a tick gives
\* every matching note but the last, in the order of start ticks and
\* whatever its pitch, the duration max(1, next start - start - gapTicks),
\* gapTicks being 0 when absent, and leaves the duration of the last
\* matching note and of the other notes, and every start tick and pitch.
C24_Legato ==
    [][(/\ last'.op = "legato"
        /\ last'.status = "ok"
        /\ IntegerTicks(midiStore[last'.args.midiId].midi))
          => Chained(TrackOf(midiStore[last'.args.midiId].midi,
                             last'.args.trackId),
                     TrackOf(midiStore'[last'.args.midiId].midi,
                             last'.args.trackId),
                     last'.args)]_vars

\* legato without a gap over the whole first track of the file has gone
\* through: the first two notes last up to the start of the next one, the
\* third lasts what it did.
C24_Witness ==
    /\ last.op = "legato"
    /\ last.status = "ok"
    /\ last.args.trackId = 0
    /\ last.args.range = NoRange
    /\ last.args.filter = NoFilter
    /\ last.args.gapTicks = Undefined
    /\ TheNotes = <<Note(60, 0, 1), Note(62, 1, MaxEditTick - 1),
                    Note(64, MaxEditTick, 1)>>

----------------------------------------------------------------------------
(* The filter, under SpecEdit.                                             *)

\* The event satisfies every constraint the filter supplies: its type is
\* among the types, a note's pitch among the note numbers, a controller's
\* number among the controller numbers, its channel among the channels.
Passes(type, number, channel, filter) ==
    IsDefined(filter) =>
        LET f == TheValue(filter)
        IN  /\ IsDefined(f.types) => type \in TheValue(f.types)
            /\ (IsDefined(f.noteNumbers) /\ type = "note")
                 => number \in TheValue(f.noteNumbers)
            /\ (IsDefined(f.ccNumbers) /\ type = "cc")
                 => number \in TheValue(f.ccNumbers)
            /\ IsDefined(f.channels) => channel \in TheValue(f.channels)

\* The positions of the notes, of the events of controller num and of the
\* pitch bends of the track that are in the range and pass the filter.
NotesIn(track, range, filter) ==
    {i \in 1 .. Len(track.notes) :
        /\ inRange(track.notes[i].ticks, range)
        /\ Passes("note", track.notes[i].midi, track.channel, filter)}

CcIn(track, num, range, filter) ==
    {i \in 1 .. Len(track.controlChanges[num]) :
        /\ inRange(track.controlChanges[num][i].ticks, range)
        /\ Passes("cc", num, track.channel, filter)}

BendsIn(track, range, filter) ==
    {i \in 1 .. Len(track.pitchBends) :
        /\ inRange(track.pitchBends[i].ticks, range)
        /\ Passes("pitchbend", 0, track.channel, filter)}

\* How many events of the track are in the range and pass the filter.
EventsIn(track, range, filter) ==
    Cardinality(NotesIn(track, range, filter))
        + Cardinality({<<num, i>> \in
                          (DOMAIN track.controlChanges) \X (1 .. MaxNotes) :
                            i \in CcIn(track, num, range, filter)})
        + Cardinality(BendsIn(track, range, filter))

\* How many events the track holds.
Events(track) == EventsIn(track, NoRange, NoFilter)

\* The answer of getEvents.
Queried(track, args, result) ==
    /\ result.total = EventsIn(track, args.range, args.filter)
    /\ \A i \in NotesIn(track, args.range, args.filter) :
         \E k \in 1 .. Len(result.events) :
            /\ result.events[k].type = "note"
            /\ result.events[k].midi = track.notes[i].midi
            /\ result.events[k].ticks = track.notes[i].ticks

\* What removeEvents leaves.
Removed(before, after, args) ==
    /\ after.notes =
         Without(before.notes, NotesIn(before, args.range, args.filter), 1)
    /\ after.pitchBends =
         Without(before.pitchBends,
                 BendsIn(before, args.range, args.filter), 1)
    /\ \A num \in DOMAIN before.controlChanges :
         LET kept == Without(before.controlChanges[num],
                             CcIn(before, num, args.range, args.filter), 1)
         IN  IF kept = <<>> THEN num \notin DOMAIN after.controlChanges
             ELSE /\ num \in DOMAIN after.controlChanges
                  /\ after.controlChanges[num] = kept

\* What a transform leaves: transpose moves the notes in the range that
\* pass the filter and no other, trimNotes filters out the short ones among
\* them, and the other transforms leave the notes that are not among them.
Transformed(before, after, op, args) ==
    LET taken == NotesIn(before, args.range, args.filter)
    IN  CASE op = "transpose" ->
               after.notes =
                 [i \in 1 .. Len(before.notes) |->
                    IF i \in taken
                      THEN [before.notes[i] EXCEPT !.midi =
                              Min(MaxPitch, Max(MinPitch, @ + args.semitones))]
                      ELSE before.notes[i]]
          [] op = "trimNotes" ->
               after.notes =
                 Without(before.notes,
                         {i \in taken :
                            before.notes[i].durationTicks
                              < (IF IsDefined(args.minDuration)
                                   THEN TheValue(args.minDuration) ELSE 1)},
                         1)
          [] OTHER ->
               \A i \in 1 .. Len(before.notes) :
                  i \notin taken =>
                     Count(after.notes, before.notes[i])
                        >= Count(before.notes, before.notes[i])

\* A step of getEvents, removeEvents, copyEvents or a transform that went
\* through has taken the events in its range that pass its filter.
FilterStep(before, after) ==
    LET op == last'.op
        args == last'.args
    IN  /\ op = "getEvents"
          => Queried(TrackOf(before, args.trackId), args, last'.result)
        /\ op = "removeEvents"
          => Removed(TrackOf(before, args.trackId),
                     TrackOf(after, args.trackId), args)
        /\ op = "copyEvents"
          => Events(TrackOf(after, args.dstTrackId))
               = Events(TrackOf(before, args.dstTrackId))
                   + EventsIn(TrackOf(before, args.srcTrackId), args.range,
                              args.filter)
        /\ op \in Transforms
          => Transformed(TrackOf(before, args.trackId),
                         TrackOf(after, args.trackId), op, args)

----------------------------------------------------------------------------
(* commit and saveAs across their await.  Both are async functions that    *)
(* serialize the sequence, await fs.writeFile and assign entry.dirty after *)
(* it; the handlers are registered one by one with server.registerTool and *)
(* nothing in tools.ts or midi-handlers.ts queues the calls, so a call     *)
(* that arrives while the write is awaited runs before the write resolves. *)

\* The most calls that await a write at a time.
MaxWrites == 2

\* The call is suspended at its await: no answer yet.
Awaiting(op, args, write) ==
    /\ Cardinality(writes \cup {write}) <= MaxWrites
    /\ writes' = writes \cup {write}
    /\ last' = [op |-> op, status |-> "pending", args |-> args,
                result |-> "pending"]
    /\ UNCHANGED <<midiStore, backupStore, files, clock>>

\* commit({midiId}) up to await fs.writeFile(entry.path, bytes)
CommitStart(midiId) ==
    LET args == [midiId |-> midiId]
    IN  IF ~HasEntry(midiId)
        THEN Fail("commit", args, "midiId not found")
        ELSE LET entry == midiStore[midiId]
             IN  IF ~IsDefined(entry.path)
                 THEN Fail("commit", args, "No original path for this midiId")
                 ELSE IF ~entry.dirty
                 THEN Answer("commit", args, "noop")
                 ELSE IF ~Writable(TheValue(entry.path))
                 THEN Fail("commit", args, "ENOENT")
                 ELSE Awaiting("commit", args,
                               [op |-> "commit", args |-> args,
                                midiId |-> midiId,
                                projectId |-> entry.projectId,
                                path |-> TheValue(entry.path),
                                bytes |-> encode(entry.midi)])

\* saveAs({midiId, projectId, relativePath}) up to await fs.writeFile(...)
SaveAsStart(midiId, projectId, relativePath) ==
    LET args == [midiId |-> midiId, projectId |-> projectId,
                 relativePath |-> relativePath]
    IN  IF ~HasEntry(midiId)
        THEN Fail("saveAs", args, "midiId not found")
        ELSE LET entry == midiStore[midiId]
                 targetProjectId == IF IsDefined(projectId)
                                      THEN TheValue(projectId)
                                      ELSE entry.projectId
                 error == PathError(targetProjectId, relativePath)
                 absPath == resolveProjectPath(targetProjectId, relativePath)
             IN  IF IsDefined(error)
                 THEN Fail("saveAs", args, TheValue(error))
                 ELSE IF ~Writable(absPath)
                 THEN Fail("saveAs", args, "ENOENT")
                 ELSE Awaiting("saveAs", args,
                               [op |-> "saveAs", args |-> [midiId |-> midiId],
                                midiId |-> midiId,
                                projectId |-> targetProjectId,
                                path |-> absPath,
                                bytes |-> encode(entry.midi)])

\* The write resolves and the call goes on after its await: commit assigns
\* entry.dirty = false, saveAs entry.projectId, entry.path and entry.dirty.
WriteDone(write) ==
    /\ write \in writes
    /\ writes' = writes \ {write}
    /\ files' = WriteFile(write.path, write.bytes)
    /\ midiStore' =
         [midiStore EXCEPT ![write.midiId] =
            IF write.op = "commit" THEN [@ EXCEPT !.dirty = FALSE]
            ELSE [@ EXCEPT !.projectId = write.projectId,
                           !.path = Some(write.path),
                           !.dirty = FALSE]]
    /\ last' = [op |-> write.op, status |-> "ok", args |-> write.args,
                result |-> "ok"]
    /\ UNCHANGED <<backupStore, clock>>

\* One session, open on a.mid and clean.
InitAsync ==
    /\ midiStore =
         (TheMidiId :>
            [id |-> TheMidiId, projectId |-> "default",
             path |-> Some(RootPath \o <<"a.mid">>), midi |-> SongA,
             dirty |-> FALSE, lastBackupId |-> Undefined])
    /\ backupStore = << >>
    /\ files = InitialFiles
    /\ clock = 0
    /\ last = [op |-> "init", status |-> "ok", args |-> << >>,
               result |-> << >>]
    /\ writes = {}

AsyncTranspose ==
    \E trackId \in {0, 1} :
        Transpose(TheMidiId, trackId, NoRange, NoFilter, 1)

AsyncCommit == CommitStart(TheMidiId)

AsyncSaveAs ==
    \E relativePath \in SavePaths :
        SaveAsStart(TheMidiId, Undefined, relativePath)

AsyncWriteDone == \E write \in writes : WriteDone(write)

NextAsync ==
    \/ AsyncTranspose
    \/ AsyncCommit
    \/ AsyncSaveAs
    \/ AsyncWriteDone

SpecAsync == InitAsync /\ [][NextAsync]_vars

\* The session is clean and its file holds its sequence.
Persisted(entry, fs) ==
    (IsDefined(entry.path) /\ ~entry.dirty)
        => /\ TheValue(entry.path) \in DOMAIN fs
           /\ fs[TheValue(entry.path)] = encode(entry.midi)

\* C26: while a commit or saveAs awaits its write no other call runs, the
\* next step is the end of that call; and a session is never left clean
\* with a sequence that is not the one written.
C26_NoInterleaving ==
    [][/\ writes # {} => (writes' \subseteq writes /\ writes' # writes)
       /\ Persisted(midiStore'[TheMidiId], files')]_vars

\* The second half alone: no step leaves the session clean with a sequence
\* its file does not hold.
NeverCleanUnsaved == [][Persisted(midiStore'[TheMidiId], files')]_vars

----------------------------------------------------------------------------
(* Clean sessions and their files, under Spec.                             *)

\* C27: every session that has a path and is not dirty holds the sequence
\* that the file at its path holds, whatever calls of openMidi, transpose,
\* backup, revert, restore and closeMidi came before.
C27_CleanMeansPersisted ==
    \A midiId \in DOMAIN midiStore : Persisted(midiStore[midiId], files)

\* The same for the sessions that no revert and no restore has made.
CleanFromOpen ==
    [][\A midiId \in DOMAIN midiStore' :
         (/\ HasEntry(midiId) => Persisted(midiStore[midiId], files)
          /\ ~(last'.op = "revert" /\ last'.args.midiId = midiId)
          /\ ~(last'.op = "restore" /\ last'.status = "ok"
               /\ last'.result.midiId = midiId))
            => Persisted(midiStore'[midiId], files')]_vars

----------------------------------------------------------------------------
(* The order of the positions ticksToBbt answers, under SpecBbt.           *)

\* Position a is before position b.
Earlier(a, b) ==
    \/ a.bar < b.bar
    \/ a.bar = b.bar /\ a.beat < b.beat
    \/ a.bar = b.bar /\ a.beat = b.beat /\ a.tick < b.tick

\* The entry of the map in force at tick t.
InForce(t) ==
    TheSigs[CHOOSE i \in DOMAIN TheSigs :
              /\ TheSigs[i].ticks <= t
              /\ \A j \in DOMAIN TheSigs : TheSigs[j].ticks <= t => j <= i]

\* toBbt has answered.
Positioned(call) == call.op = "toBbt" /\ call.status = "ok"

\* Two calls of toBbt in a row, the second for a later tick, give a later
\* position.
LaterIsLater ==
    (/\ Positioned(last)
     /\ Positioned(last')
     /\ last.args.ticks < last'.args.ticks)
        => Earlier(last.result, last'.result)

\* The position is one of the signature in force at its tick.
WithinSignature(call) ==
    Positioned(call) =>
        LET sig == InForce(call.args.ticks)
        IN  /\ call.result.bar >= 1
            /\ call.result.beat >= 1
            /\ call.result.beat <= sig.num
            /\ call.result.tick >= 0
            /\ call.result.tick
                 < TicksPerBeat(midiStore[TheMidiId].midi.ppq, sig.denom)

\* C28: for one ppq and one map of time signatures ticksToBbt gives a later
\* tick a later (bar, beat, tick), and every position has bar >= 1, beat
\* from 1 to the numerator of the signature used and tick from 0 to below
\* its ticksPerBeat.
C28_Monotone == [][LaterIsLater /\ WithinSignature(last')]_vars

\* The ranges alone.
PositionsWithinSignature == WithinSignature(last)

\* The order when the map has one entry, or changes on a bar line.
MonotoneOnBarLines ==
    [][(Len(TheSigs) = 1 \/ ChangeOnBarLine) => LaterIsLater]_vars

----------------------------------------------------------------------------
(* midi-handlers.ts: exportReport and createMidi, and the specification of *)
(* every handler that reads or writes a file.                              *)

\* `midi-report-${midiId}.${format}`
ReportName(midiId, format) ==
    "midi-report-" \o midiId[1] \o "_" \o ToString(midiId[2]) \o "_"
        \o ToString(midiId[3]) \o "." \o format

\* JSON.stringify(issues) and JSON.stringify(issues, null, 2): a JSON array
\* in either format, and no MIDI file.
ReportText(midi, format) == [header |-> "json", sequence |-> Undefined]

\* reportsDir(projectId)
reportsDir(projectId) == resolveProjectPath(projectId, RelPath(FALSE, <<"reports">>))

\* exportReport({midiId, format}); fs.mkdir(dir, {recursive: true}) makes
\* the directory of the report when it is not there.
ExportReport(midiId, format) ==
    LET args == [midiId |-> midiId, format |-> format]
    IN  IF ~HasEntry(midiId)
        THEN Fail("exportReport", args, "midiId not found")
        ELSE LET entry == midiStore[midiId]
                 error == ResolveError(entry.projectId,
                                       RelPath(FALSE, <<"reports">>))
                 outPath == reportsDir(entry.projectId)
                               \o <<ReportName(midiId, format)>>
             IN  IF IsDefined(error)
                 THEN Fail("exportReport", args, TheValue(error))
                 ELSE /\ files' = WriteFile(outPath,
                                            ReportText(entry.midi, format))
                      /\ Done("exportReport", args, [filePath |-> outPath])
                      /\ UNCHANGED <<midiStore, backupStore, clock>>

\* JSON.parse accepts the text.
Parsable(bytes) == bytes.header = "json"

\* JSON.parse of a report: an array, which has no ppq, tempos,
\* timeSignatures or tracks.
Parsed(bytes) == [ppq |-> Undefined]

\* new MidiCtor(): no tracks, no tempos and the ppq of the library.
NewMidi == [ppq |-> 480, tempos |-> <<>>, timeSignatures |-> <<>>, tracks |-> <<>>]

\* createMidi from a composition without tempos, time signatures and
\* tracks: the header, then the write of the file.
CreateFrom(args, projectId, data, outputPath) ==
    LET midi == safeUpdateHeader(
                  [NewMidi EXCEPT
                     !.ppq = IF IsDefined(data.ppq) /\ TheValue(data.ppq) # 0
                               THEN TheValue(data.ppq) ELSE @,
                     !.timeSignatures = defaultTimeSignatures])
        error == ResolveError(projectId, outputPath)
        absOut == resolveProjectPath(projectId, outputPath)
    IN  IF IsDefined(error)
        THEN Fail("createMidi", args, TheValue(error))
        ELSE IF ~Writable(absOut)
        THEN Fail("createMidi", args, "ENOENT")
        ELSE /\ files' = WriteFile(absOut, encode(midi))
             /\ Done("createMidi", args, [filePath |-> absOut])
             /\ UNCHANGED <<midiStore, backupStore, clock>>

\* createMidi({projectId, composition, composition_file, outputPath})
CreateMidi(projectId, composition, composition_file, outputPath) ==
    LET args == [projectId |-> projectId, composition |-> composition,
                 composition_file |-> composition_file,
                 outputPath |-> outputPath]
    IN  IF IsDefined(composition) /\ IsDefined(composition_file)
        THEN Fail("createMidi", args,
                  "Provide either composition or composition_file, not both")
        ELSE IF outputPath = BlankPath
        THEN Fail("createMidi", args, "outputPath is required")
        ELSE IF IsDefined(composition_file)
        THEN LET file == TheValue(composition_file)
                 error == ResolveError(projectId, file)
                 absPath == resolveProjectPath(projectId, file)
             IN  IF file = BlankPath
                 THEN Fail("createMidi", args, "composition_file is required")
                 ELSE IF IsDefined(error)
                 THEN Fail("createMidi", args, TheValue(error))
                 ELSE IF absPath \notin DOMAIN files
                 THEN Fail("createMidi", args, "ENOENT")
                 ELSE IF ~Parsable(files[absPath])
                 THEN Fail("createMidi", args, "Unexpected token")
                 ELSE CreateFrom(args, projectId, Parsed(files[absPath]),
                                 outputPath)
        ELSE IF ~IsDefined(composition)
        THEN Fail("createMidi", args,
                  "composition or composition_file required")
        ELSE CreateFrom(args, projectId, TheValue(composition), outputPath)

Formats == {"json"}

Compositions == {[ppq |-> Some(2)]}

CompositionFiles ==
    {RelPath(FALSE, <<"a.mid">>), RelPath(FALSE, <<"..", "a.mid">>),
     RelPath(FALSE, <<"reports", ReportName(id("midi", 0, 1), "json")>>)}

OutputPaths ==
    {RelPath(FALSE, <<"sub", "c.mid">>), RelPath(FALSE, <<"..", "c.mid">>),
     RelPath(TRUE, <<"c.mid">>)}

ExportSession ==
    \E format \in Formats : ExportReport(id("midi", 0, 1), format)

BackupOne ==
    \E midiId \in Ids("midi"), now \in Now, random \in Suffixes :
        /\ Fits(backupStore, id("backup", now, random), 1)
        /\ Backup(midiId, now, random)

RestoreOne ==
    \E backupId \in Ids("backup"), now \in Now, random \in Suffixes :
        /\ Fits(midiStore, id("midi", now, random), 1)
        /\ Restore(backupId, now, random)

CreateSession ==
    \/ \E outputPath \in OutputPaths, composition \in Compositions :
         CreateMidi("default", Some(composition), Undefined, outputPath)
    \/ \E file \in CompositionFiles :
         CreateMidi("default", Undefined, Some(file),
                    RelPath(FALSE, <<"sub", "c.mid">>))
    \/ \E projectId \in ProjectIds :
         CreateMidi(projectId, Undefined, Undefined,
                    RelPath(FALSE, <<"sub", "c.mid">>))
    \/ CreateMidi("default", Some([ppq |-> Undefined]),
                  Some(RelPath(FALSE, <<"a.mid">>)), BlankPath)

OpenInside ==
    \E relativePath \in CompositionFiles, now \in Now, random \in Suffixes :
        /\ Fits(midiStore, id("midi", now, random), 1)
        /\ OpenMidi("default", relativePath, now, random)

TransposeOne ==
    \E midiId \in Ids("midi") :
        Transpose(midiId, 0, NoRange, NoFilter, 1)

SaveAnywhere ==
    \E midiId \in Ids("midi"), relativePath \in OutputPaths :
        SaveAs(midiId, Undefined, relativePath)

NextRoot ==
    \/ OpenInside
    \/ SaveAnywhere
    \/ CommitSession
    \/ BackupOne
    \/ RestoreOne
    \/ TransposeOne
    \/ CloseSession
    \/ ExportSession
    \/ CreateSession

SpecRoot == Init /\ [][NextRoot]_vars

\* The path is the root of a registered project or beneath it.
InProject(absPath) ==
    \E projectId \in DOMAIN projects : Beneath(projects[projectId], absPath)

----------------------------------------------------------------------------
(* What fixOverlaps in mode remove deletes, under SpecOverlap.             *)

\* Two notes sound together at some tick.
SoundTogether(a, b) ==
    /\ a.ticks < b.ticks + b.durationTicks
    /\ b.ticks < a.ticks + a.durationTicks

\* Note j sounds together with a note of its list that is among `others`.
OverlapsOneOf(track, range, filter, j, others) ==
    \E i \in others :
        /\ i # j
        /\ InList(track, range, filter, i,
                  <<track.notes[j].midi, getNoteChannel(track.notes[j], track)>>)
        /\ SoundTogether(track.notes[i], track.notes[j])

\* A step of fixOverlaps in mode remove: every note it deletes sounds
\* together with a note of its list that is among those the step leaves
\* (kept), or among all the notes of the list.
DeletedOverlap(kept) ==
    (/\ last'.op = "fixOverlaps"
     /\ last'.status = "ok"
     /\ last'.args.mode = "remove")
        => LET deleted == Overlapped(TheTrack, last'.args.range,
                                     last'.args.filter)
               all == 1 .. Len(TheNotes)
           IN  /\ TheNotes' = Without(TheNotes, deleted, 1)
               /\ \A j \in deleted :
                    OverlapsOneOf(TheTrack, last'.args.range,
                                  last'.args.filter, j,
                                  IF kept THEN all \ deleted ELSE all)

\* C30: every note fixOverlaps deletes in mode remove overlapped a note of
\* its (pitch, channel) list that is still in the track after the call: no
\* note goes only because it overlapped a note that went in the same pass.
C30_DeletedOverlapKept == [][DeletedOverlap(TRUE)]_vars

\* Every note deleted overlapped a note of its list, deleted or not.
DeletedOverlapSome == [][DeletedOverlap(FALSE)]_vars

====
